---- MODULE Spec2Model ----
(***************************************************************************)
(* Workload session orchestrator of the AI service: the session registry   *)
(* (_sessions), session start / resume, the follow-up listener, the relay  *)
(* task, interrupt / cancel, the human confirmation route and the tool     *)
(* approval bridge.                                                        *)
(*                                                                         *)
(* Every coroutine is cut at its await points.  A pc value names the       *)
(* awaited operation a coroutine is suspended on; one step of the model    *)
(* completes that operation (its effect on the store, the file system,     *)
(* the agent process) and then runs the synchronous code that follows it   *)
(* up to the next await.  Consecutive awaits whose effects no other        *)
(* coroutine can observe are one step.  asyncio.create_task only schedules *)
(* a coroutine: pc "created" is a task whose body has not run yet.         *)
(***************************************************************************)
EXTENDS Integers, FiniteSets, Sequences, TLC

\* ------------------------------------------------------------------ bounds
\* external requests (follow-up messages, interrupt / cancel calls, human
\* confirmations) the environment sends in one behaviour
MaxRequests == 2
\* tool calls the agent makes, and tool-decision messages the environment sends
MaxCalls == 2
MaxDecisions == 2
\* entries of an allow-list given to _tool_matches
MaxPatterns == 2

\* ------------------------------------------------------- program constants
\* listener.py:350  `retries: int = 3`
RetryAttempts == 3

Workloads == {"w1"}
\* A workload id that no row of the workloads table has.
UnknownIds == {"w0"}
\* the branches of the canonical clone that can be checked out
Branches == {"main", "dev"}
\* The ids an interrupt, cancel or confirmation request can name.
StopIds == Workloads \cup UnknownIds
MaxTasks == Cardinality(Workloads) + MaxRequests
TaskIds == 1..MaxTasks
Slots == 1..MaxRequests
NoId == 0
CallIds == 1..MaxCalls
ReqIds == 1..MaxCalls

VARIABLES
    dbStatus,      \* workloads.status, per workload
    dbSessionId,   \* workloads.session_id is set (a resumable handle is stored)
    worktree,      \* the worktree path of the workload exists
    branch,        \* the branch workload/<slug> exists in the clone
    _sessions,     \* registry: workload -> id of the registered session dict, NoId if none
    sess,          \* the session dicts, by id: fields client and task
    connected,     \* the ClaudeSDKClient objects that are connected (by id)
    busy,          \* the connected agents that hold a prompt they have not finished
    task,          \* start_workload_session / _resume_and_deliver coroutines
    nextTask,      \* next unused task id
    relay,         \* the _relay_messages task of each session start
    _resuming,     \* listener._resuming
    listener,      \* listen_workload_messages: pc and the message in hand
    retry,         \* _retry_route tasks
    stops,         \* stop_workload_session calls (interrupt / cancel) in progress
    confirms,      \* update_workload_status calls of the API service in progress
    nRequests,     \* external requests received so far
    hook,          \* the Stop hook of each session: the git command it is suspended on
    merge_state,   \* the merge_state dict of each session: succeeded and retries
    shutdown,      \* shutdown_all_sessions: its position and the sessions still to visit
    statusEvent,   \* the status of the last workload_status event published, per id
    cloneHead,     \* the branch checked out in the canonical clone
    pulsed,        \* per session: parity of the agent_activity events published
    settingsAllow, \* permissions.allow of the project's .claude/settings.local.json
    session_approvals,  \* session dict -> permission keys approved for the session
    pending_approvals,  \* session dict -> request ids that map to a Future
    future,        \* the Future of each approval request id
    calls,         \* can_use_tool callback invocations
    nextReq,       \* next approval request id (uuid4: never used before)
    published,     \* approval request events published, per request id
    accepted,      \* calls of resolve_tool_approval that returned True, per request id
    rejected,      \* calls of resolve_tool_approval that returned False, per request id
    nDecisions,    \* tool-decision messages received so far
    matching       \* one application of _tool_matches: its arguments and its result

lifecycleVars == <<dbStatus, dbSessionId, worktree, branch, _sessions, sess, connected,
                   busy, task, nextTask, relay, _resuming, listener, retry, stops,
                   confirms, nRequests, hook, merge_state,
                   shutdown, statusEvent, cloneHead, pulsed>>
approvalVars == <<settingsAllow, session_approvals, pending_approvals, future, calls,
                  nextReq, published, accepted, rejected, nDecisions>>
vars == <<lifecycleVars, approvalVars, matching>>

\* ------------------------------------------------------------------ helpers
FreeTask == [kind |-> "none", w |-> "none", pc |-> "free", c |-> NoId, ret |-> "none",
             stopped |-> FALSE, dl |-> 0]
NoRelay == [pc |-> "none", cancel |-> FALSE, summary |-> "none", hb |-> 0, check |-> "none"]
NoSess == [client |-> NoId, task |-> NoId]
IdleListener == [pc |-> "recv", w |-> "none", c |-> NoId]
NoRetry == [w |-> "none", pc |-> "free", attempt |-> 0, c |-> NoId]
NoStop == [w |-> "none", target |-> "none", pc |-> "free", client |-> NoId,
           seen |-> {}, http |-> 0]
NoConfirm == [w |-> "none", pc |-> "free", http |-> 0]
\* No return code of `git merge` at hand.
NoRc == -1
\* The Stop hook of a session between two runs.
NoHook == [pc |-> "none", rc |-> NoRc, into |-> "none"]
NoShutdown == [pc |-> "idle", todo |-> {}, client |-> NoId]
\* workload.py:238  merge_state as _make_stop_hook creates it, in a clone that
\* has main checked out
NewMergeState == [succeeded |-> "None", retries |-> 0, target_branch |-> "main"]
NoFuture == [state |-> "none", decision |-> "none"]
NoTool == [tool_name |-> "none", parts |-> <<>>, suggestion |-> ""]
NoMatch == [tool |-> NoTool, allowed |-> <<>>, out |-> "none"]
NoCall == [sid |-> NoId, tool |-> NoTool, key |-> "", pc |-> "free", rid |-> NoId,
           outcome |-> "none"]

\* the lowest free slot of a table of calls in progress
FreeSlot(tab) == CHOOSE i \in Slots : tab[i].pc = "free" /\ \A j \in Slots : tab[j].pc = "free" => i <= j

\* the registry check that never finds an entry
NoSessionExists(w) == FALSE

\* workload.py:650  `if workload_id in _sessions`
SessionExists(w) == _sessions[w] # NoId

\* A branch left behind by a crash is a state the code provides for
\* (workload.py:144-153), so the clone may start with it.
StartUp ==
    /\ dbStatus = [w \in Workloads |-> "assigned"]
    /\ dbSessionId = [w \in Workloads |-> FALSE]
    /\ worktree = [w \in Workloads |-> FALSE]
    /\ branch \in [Workloads -> BOOLEAN]
    /\ _sessions = [w \in Workloads |-> NoId]
    /\ sess = [t \in TaskIds |-> NoSess]
    /\ connected = {}
    /\ busy = {}
    /\ task = [t \in TaskIds |-> FreeTask]
    /\ nextTask = 1
    /\ relay = [t \in TaskIds |-> NoRelay]
    /\ _resuming = {}
    /\ listener = IdleListener
    /\ retry = [i \in Slots |-> NoRetry]
    /\ stops = [i \in Slots |-> NoStop]
    /\ confirms = [i \in Slots |-> NoConfirm]
    /\ nRequests = 0
    /\ hook = [t \in TaskIds |-> NoHook]
    /\ merge_state = [t \in TaskIds |-> NewMergeState]
    /\ shutdown = NoShutdown
    /\ statusEvent = [w \in StopIds |-> "none"]
    /\ cloneHead = "main"
    /\ pulsed = [t \in TaskIds |-> FALSE]
    /\ settingsAllow = <<>>
    /\ session_approvals = [t \in TaskIds |-> {}]
    /\ pending_approvals = [t \in TaskIds |-> {}]
    /\ future = [r \in ReqIds |-> NoFuture]
    /\ calls = [c \in CallIds |-> NoCall]
    /\ nextReq = 1
    /\ published = [r \in ReqIds |-> 0]
    /\ accepted = [r \in ReqIds |-> 0]
    /\ rejected = [r \in ReqIds |-> 0]
    /\ nDecisions = 0

Init ==
    /\ StartUp
    /\ matching = NoMatch

\* ------------------------------------------- start_workload_session, resume
\* workload.py:807-813, the synchronous part of route_message: the registry
\* lookup, then `client = session["client"]; await client.query(prompt)`.
\* "raise" is the AttributeError of calling query on a client that is still None.
RouteOutcome(w, reg, ses) ==
    IF reg[w] = NoId THEN "no_session"
    ELSE IF ses[reg[w]].client = NoId THEN "raise"
    ELSE "query"

\* What follows a return of start_workload_session (how: the way it returned).
\* A start task created by the coordinator listener ends.  _resume_and_deliver
\* goes on to route_message (listener.py:339-347): it suspends on client.query,
\* or it ends at once and the finally clause discards the workload from
\* _resuming.
AfterStartReturns(t, how, reg, ses, res) ==
    LET w == task[t].w
        o == RouteOutcome(w, reg, ses)
    IN  IF task[t].kind = "start"
        THEN /\ task' = [task EXCEPT ![t].pc = "done", ![t].ret = how]
             /\ _resuming' = res
        ELSE IF o = "query"
        THEN /\ task' = [task EXCEPT ![t].pc = "route_query", ![t].ret = how,
                                     ![t].c = ses[reg[w]].client]
             /\ _resuming' = res
        ELSE /\ task' = [task EXCEPT ![t].pc = "done", ![t].ret = how]
             /\ _resuming' = res \ {w}

\* listener.py:298-304: the coordinator listener persists a new workload as
\* 'assigned' and schedules its start_workload_session, once per workload.
Dispatch(w) ==
    /\ dbStatus[w] = "assigned"
    /\ \A t \in TaskIds : task[t].w # w
    /\ nextTask <= MaxTasks
    /\ task' = [task EXCEPT ![nextTask] = [FreeTask EXCEPT !.kind = "start", !.w = w,
                                                           !.pc = "created"]]
    /\ nextTask' = nextTask + 1
    /\ UNCHANGED <<dbStatus, dbSessionId, worktree, branch, _sessions, sess, connected,
                   busy, relay, _resuming, listener, retry, stops, confirms, nRequests>>
    /\ UNCHANGED <<hook, merge_state>>
    /\ UNCHANGED shutdown
    /\ UNCHANGED statusEvent
    /\ UNCHANGED cloneHead
    /\ UNCHANGED pulsed
    /\ UNCHANGED approvalVars
    /\ UNCHANGED matching

\* listener.py:334-337 and workload.py:648-658: the task body starts.  A resume
\* first adds the workload to _resuming.  Then the registry check; with no entry,
\* _ensure_worktree returns at once when the path exists (workload.py:128-130)
\* and otherwise suspends on `git worktree add -b`.
StartEntry(t) ==
    /\ task[t].pc = "created"
    /\ LET w == task[t].w
           res == IF task[t].kind = "resume" THEN _resuming \cup {w} ELSE _resuming
       IN  IF SessionExists(w)
           THEN AfterStartReturns(t, "exists", _sessions, sess, res)
           ELSE /\ task' = [task EXCEPT ![t].pc = IF worktree[w] THEN "db_running" ELSE "git_add"]
                /\ _resuming' = res
    /\ UNCHANGED <<dbStatus, dbSessionId, worktree, branch, _sessions, sess, connected,
                   busy, nextTask, relay, listener, retry, stops, confirms, nRequests>>
    /\ UNCHANGED <<hook, merge_state>>
    /\ UNCHANGED shutdown
    /\ UNCHANGED statusEvent
    /\ UNCHANGED cloneHead
    /\ UNCHANGED pulsed
    /\ UNCHANGED approvalVars
    /\ UNCHANGED matching

\* A mutation of AlreadyExists: no failure is taken as "already exists".
NeverAlreadyExists(w) == FALSE

\* workload.py:141-144: `git worktree add -b` fails with "already exists" in
\* its message: the branch, or the path, is there.
AlreadyExists(w) == worktree[w] \/ branch[w]

\* workload.py:134-155: `git worktree add <path> -b <branch>` ends.  It reports
\* "already exists" when the path or the branch is there, and the code then
\* attaches to the existing branch; any other failure raises RuntimeError, which
\* start_workload_session catches (workload.py:659-661).
GitAdd(t) ==
    /\ task[t].pc = "git_add"
    /\ LET w == task[t].w
       IN  IF AlreadyExists(w)
           THEN /\ task' = [task EXCEPT ![t].pc = "git_attach"]
                /\ UNCHANGED <<worktree, branch>>
           ELSE \/ /\ worktree' = [worktree EXCEPT ![w] = TRUE]
                   /\ branch' = [branch EXCEPT ![w] = TRUE]
                   /\ task' = [task EXCEPT ![t].pc = "db_running"]
                \/ /\ task' = [task EXCEPT ![t].pc = "wt_failed_db"]
                   /\ UNCHANGED <<worktree, branch>>
    /\ UNCHANGED <<dbStatus, dbSessionId, _sessions, sess, connected, busy, nextTask,
                   relay, _resuming, listener, retry, stops, confirms, nRequests>>
    /\ UNCHANGED <<hook, merge_state>>
    /\ UNCHANGED shutdown
    /\ UNCHANGED statusEvent
    /\ UNCHANGED cloneHead
    /\ UNCHANGED pulsed
    /\ UNCHANGED approvalVars
    /\ UNCHANGED matching

\* workload.py:145-153: `git worktree add <path> <branch>` ends.
GitAttach(t) ==
    /\ task[t].pc = "git_attach"
    /\ LET w == task[t].w
       IN  \/ /\ ~worktree[w] /\ branch[w]
              /\ worktree' = [worktree EXCEPT ![w] = TRUE]
              /\ task' = [task EXCEPT ![t].pc = "db_running"]
           \/ /\ task' = [task EXCEPT ![t].pc = "wt_failed_db"]
              /\ UNCHANGED worktree
    /\ UNCHANGED <<dbStatus, dbSessionId, branch, _sessions, sess, connected, busy,
                   nextTask, relay, _resuming, listener, retry, stops, confirms,
                   nRequests>>
    /\ UNCHANGED <<hook, merge_state>>
    /\ UNCHANGED shutdown
    /\ UNCHANGED statusEvent
    /\ UNCHANGED cloneHead
    /\ UNCHANGED pulsed
    /\ UNCHANGED approvalVars
    /\ UNCHANGED matching

\* workload.py:661-668: the UPDATE to needs_attention after a worktree failure.
WtFailedDb(t) ==
    /\ task[t].pc = "wt_failed_db"
    /\ dbStatus' = [dbStatus EXCEPT ![task[t].w] = "needs_attention"]
    /\ task' = [task EXCEPT ![t].pc = "wt_failed_pub"]
    /\ UNCHANGED <<dbSessionId, worktree, branch, _sessions, sess, connected, busy,
                   nextTask, relay, _resuming, listener, retry, stops, confirms,
                   nRequests>>
    /\ UNCHANGED <<hook, merge_state>>
    /\ UNCHANGED shutdown
    /\ UNCHANGED statusEvent
    /\ UNCHANGED cloneHead
    /\ UNCHANGED pulsed
    /\ UNCHANGED approvalVars
    /\ UNCHANGED matching

\* workload.py:669-673: the needs_attention status event, then the return.
WtFailedPub(t) ==
    /\ task[t].pc = "wt_failed_pub"
    /\ AfterStartReturns(t, "worktree_failed", _sessions, sess, _resuming)
    /\ UNCHANGED <<dbStatus, dbSessionId, worktree, branch, _sessions, sess, connected,
                   busy, nextTask, relay, listener, retry, stops, confirms, nRequests>>
    /\ UNCHANGED <<hook, merge_state>>
    /\ UNCHANGED shutdown
    /\ statusEvent' = [statusEvent EXCEPT ![task[t].w] = "needs_attention"]
    /\ UNCHANGED cloneHead
    /\ UNCHANGED pulsed
    /\ UNCHANGED approvalVars
    /\ UNCHANGED matching

\* workload.py:675-685: UPDATE workloads SET worktree_branch, status = 'running'.
DbRunning(t) ==
    /\ task[t].pc = "db_running"
    /\ dbStatus' = [dbStatus EXCEPT ![task[t].w] = "running"]
    /\ task' = [task EXCEPT ![t].pc = "pub_running"]
    /\ UNCHANGED <<dbSessionId, worktree, branch, _sessions, sess, connected, busy,
                   nextTask, relay, _resuming, listener, retry, stops, confirms,
                   nRequests>>
    /\ UNCHANGED <<hook, merge_state>>
    /\ UNCHANGED shutdown
    /\ UNCHANGED statusEvent
    /\ UNCHANGED cloneHead
    /\ UNCHANGED pulsed
    /\ UNCHANGED approvalVars
    /\ UNCHANGED matching

\* workload.py:695-698: the target branch, from the output of
\* `git symbolic-ref --short HEAD` in the clone; main when there is none.
TargetBranch(out) == IF out = "" THEN "main" ELSE out

\* workload.py:687-763: the 'running' status event is published and the target
\* branch read (`git symbolic-ref`); then the session dict is registered with
\* client None and task None, and connect() is awaited.
PubRunning(t) ==
    /\ task[t].pc = "pub_running"
    /\ _sessions' = [_sessions EXCEPT ![task[t].w] = t]
    /\ sess' = [sess EXCEPT ![t] = NoSess]
    /\ task' = [task EXCEPT ![t].pc = "connect"]
    /\ UNCHANGED <<dbStatus, dbSessionId, worktree, branch, connected, busy, nextTask,
                   relay, _resuming, listener, retry, stops, confirms, nRequests>>
    /\ merge_state' = [merge_state EXCEPT ![t] =
                          [NewMergeState EXCEPT !.target_branch = TargetBranch(cloneHead)]]
    /\ UNCHANGED hook
    /\ UNCHANGED shutdown
    /\ statusEvent' = [statusEvent EXCEPT ![task[t].w] = "running"]
    /\ UNCHANGED cloneHead
    /\ UNCHANGED pulsed
    /\ UNCHANGED approvalVars
    /\ UNCHANGED matching

\* A mutation of is_resume: no start is taken as a resume.
NeverResume(t) == FALSE

\* workload.py:710  `is_resume = bool(workload_data.get("session_id"))`.  The
\* data of a dispatched start carries session_id None (listener.py:232); the
\* data of a resume comes from fetch_workload_data_for_resume, which returns
\* none without a stored handle (workload.py:66-74).
is_resume(t) == task[t].kind = "resume"

\* workload.py:760-799: connect() ends.  On success the client and the relay
\* task are stored in whatever dict the registry holds for the workload now
\* (`_sessions[workload_id]["client"] = client` raises KeyError when the entry
\* is gone); a first start then awaits the initial prompt, a resume returns.
\* On failure the registry entry is popped and needs_attention is written.
Connect(t) ==
    /\ task[t].pc = "connect"
    /\ LET w == task[t].w
       IN  \/ /\ connected' = connected \cup {t}
              /\ IF _sessions[w] = NoId
                 THEN /\ task' = [task EXCEPT ![t].ret = "raised", ![t].pc =
                                      IF task[t].kind = "start" THEN "failed" ELSE "done"]
                      /\ _resuming' = IF task[t].kind = "resume" THEN _resuming \ {w}
                                      ELSE _resuming
                      /\ UNCHANGED <<sess, relay>>
                 ELSE /\ sess' = [sess EXCEPT ![_sessions[w]] = [client |-> t, task |-> t]]
                      /\ relay' = [relay EXCEPT ![t] = [pc |-> "created", cancel |-> FALSE, summary |-> "none", hb |-> 0, check |-> "none"]]
                      /\ task' = [task EXCEPT ![t].ret = "ok", ![t].c = t, ![t].pc =
                                      IF ~is_resume(t) THEN "initial_query"
                                      ELSE "route_query"]
                      /\ UNCHANGED _resuming
              /\ UNCHANGED _sessions
           \/ /\ _sessions' = [_sessions EXCEPT ![w] = NoId]
              /\ task' = [task EXCEPT ![t].pc = "cf_db"]
              /\ UNCHANGED <<connected, sess, relay, _resuming>>
    /\ UNCHANGED <<dbStatus, dbSessionId, worktree, branch, busy, nextTask, listener,
                   retry, stops, confirms, nRequests>>
    /\ UNCHANGED <<hook, merge_state>>
    /\ UNCHANGED shutdown
    /\ UNCHANGED statusEvent
    /\ UNCHANGED cloneHead
    /\ UNCHANGED pulsed
    /\ UNCHANGED approvalVars
    /\ UNCHANGED matching

\* workload.py:767-774: the UPDATE to needs_attention after a connect failure.
CfDb(t) ==
    /\ task[t].pc = "cf_db"
    /\ dbStatus' = [dbStatus EXCEPT ![task[t].w] = "needs_attention"]
    /\ task' = [task EXCEPT ![t].pc = "cf_pub"]
    /\ UNCHANGED <<dbSessionId, worktree, branch, _sessions, sess, connected, busy,
                   nextTask, relay, _resuming, listener, retry, stops, confirms,
                   nRequests>>
    /\ UNCHANGED <<hook, merge_state>>
    /\ UNCHANGED shutdown
    /\ UNCHANGED statusEvent
    /\ UNCHANGED cloneHead
    /\ UNCHANGED pulsed
    /\ UNCHANGED approvalVars
    /\ UNCHANGED matching

\* workload.py:775-779: the needs_attention status event, then the return.
CfPub(t) ==
    /\ task[t].pc = "cf_pub"
    /\ AfterStartReturns(t, "connect_failed", _sessions, sess, _resuming)
    /\ UNCHANGED <<dbStatus, dbSessionId, worktree, branch, _sessions, sess, connected,
                   busy, nextTask, relay, listener, retry, stops, confirms, nRequests>>
    /\ UNCHANGED <<hook, merge_state>>
    /\ UNCHANGED shutdown
    /\ statusEvent' = [statusEvent EXCEPT ![task[t].w] = "needs_attention"]
    /\ UNCHANGED cloneHead
    /\ UNCHANGED pulsed
    /\ UNCHANGED approvalVars
    /\ UNCHANGED matching

\* workload.py:791-794: client.query(initial_prompt) ends; it raises when the
\* client was disconnected meanwhile.
InitialQuery(t) ==
    /\ task[t].pc = "initial_query"
    /\ IF t \in connected
       THEN /\ task' = [task EXCEPT ![t].pc = "done"]
            /\ busy' = busy \cup {t}
       ELSE /\ task' = [task EXCEPT ![t].pc = "failed"]
            /\ UNCHANGED busy
    /\ UNCHANGED <<dbStatus, dbSessionId, worktree, branch, _sessions, sess, connected,
                   nextTask, relay, _resuming, listener, retry, stops, confirms,
                   nRequests>>
    /\ UNCHANGED <<hook, merge_state>>
    /\ UNCHANGED shutdown
    /\ UNCHANGED statusEvent
    /\ UNCHANGED cloneHead
    /\ UNCHANGED pulsed
    /\ UNCHANGED approvalVars
    /\ UNCHANGED matching

\* listener.py:339-347: the client.query of route_message ends, delivered or
\* raising; either way the finally clause discards the workload from _resuming.
\* dl counts the deliveries of the follow-up the task carries.
RouteQuery(t) ==
    /\ task[t].pc = "route_query"
    /\ task' = [task EXCEPT ![t].pc = "done",
                            ![t].dl = IF task[t].c \in connected THEN @ + 1 ELSE @]
    /\ _resuming' = _resuming \ {task[t].w}
    /\ busy' = IF task[t].c \in connected THEN busy \cup {task[t].c} ELSE busy
    /\ UNCHANGED <<dbStatus, dbSessionId, worktree, branch, _sessions, sess, connected,
                   nextTask, relay, listener, retry, stops, confirms, nRequests>>
    /\ UNCHANGED <<hook, merge_state>>
    /\ UNCHANGED shutdown
    /\ UNCHANGED statusEvent
    /\ UNCHANGED cloneHead
    /\ UNCHANGED pulsed
    /\ UNCHANGED approvalVars
    /\ UNCHANGED matching

\* ------------------------------------------------- listen_workload_messages
\* the eligibility check without the status test
ResumableAnyStatus(handle, status) == handle

\* workload.py:66 and listener.py:391-402: a fetched row is resumed only with a
\* stored session handle and a status of needs_attention or completed.
Resumable(handle, status) ==
    handle /\ status \in {"needs_attention", "completed"}

\* listener.py:367-390: a follow-up for w is received and route_message runs.
\* With no session either a retry is scheduled (a resume is marked in flight)
\* or the row is fetched; with a session the prompt is sent to its client, and
\* a session whose client is still None makes route_message raise, which ends
\* the listener task.
Receive(w) ==
    /\ listener.pc = "recv"
    /\ nRequests < MaxRequests
    /\ nRequests' = nRequests + 1
    /\ LET o == RouteOutcome(w, _sessions, sess)
       IN  IF o = "query"
           THEN /\ listener' = [pc |-> "lquery", w |-> w, c |-> sess[_sessions[w]].client]
                /\ UNCHANGED retry
           ELSE IF o = "raise"
           THEN /\ listener' = [pc |-> "crashed", w |-> w, c |-> NoId]
                /\ UNCHANGED retry
           ELSE IF w \in _resuming
           THEN /\ retry' = [retry EXCEPT ![FreeSlot(retry)] =
                                 [w |-> w, pc |-> "sleep", attempt |-> 0, c |-> NoId]]
                /\ UNCHANGED listener
           ELSE /\ listener' = [pc |-> "fetch", w |-> w, c |-> NoId]
                /\ UNCHANGED retry
    /\ UNCHANGED <<dbStatus, dbSessionId, worktree, branch, _sessions, sess, connected,
                   busy, task, nextTask, relay, _resuming, stops, confirms>>
    /\ UNCHANGED <<hook, merge_state>>
    /\ UNCHANGED shutdown
    /\ UNCHANGED statusEvent
    /\ UNCHANGED cloneHead
    /\ UNCHANGED pulsed
    /\ UNCHANGED approvalVars
    /\ UNCHANGED matching

\* listener.py:375-378: the client.query of the listener's route_message ends.
ListenerQuery ==
    /\ listener.pc = "lquery"
    /\ IF listener.c \in connected
       THEN /\ listener' = IdleListener
            /\ busy' = busy \cup {listener.c}
       ELSE /\ listener' = [pc |-> "crashed", w |-> "none", c |-> NoId]
            /\ UNCHANGED busy
    /\ UNCHANGED <<dbStatus, dbSessionId, worktree, branch, _sessions, sess, connected,
                   task, nextTask, relay, _resuming, retry, stops, confirms, nRequests>>
    /\ UNCHANGED <<hook, merge_state>>
    /\ UNCHANGED shutdown
    /\ UNCHANGED statusEvent
    /\ UNCHANGED cloneHead
    /\ UNCHANGED pulsed
    /\ UNCHANGED approvalVars
    /\ UNCHANGED matching

\* listener.py:390-408: the row comes back; the resume task is scheduled or the
\* follow-up is dropped with a warning.
Fetch ==
    /\ listener.pc = "fetch"
    /\ listener' = IdleListener
    /\ LET w == listener.w
       IN  IF Resumable(dbSessionId[w], dbStatus[w])
           THEN /\ task' = [task EXCEPT ![nextTask] =
                                [FreeTask EXCEPT !.kind = "resume", !.w = w, !.pc = "created"]]
                /\ nextTask' = nextTask + 1
           ELSE UNCHANGED <<task, nextTask>>
    /\ UNCHANGED <<dbStatus, dbSessionId, worktree, branch, _sessions, sess, connected,
                   busy, relay, _resuming, retry, stops, confirms, nRequests>>
    /\ UNCHANGED <<hook, merge_state>>
    /\ UNCHANGED shutdown
    /\ UNCHANGED statusEvent
    /\ UNCHANGED cloneHead
    /\ UNCHANGED pulsed
    /\ UNCHANGED approvalVars
    /\ UNCHANGED matching

\* listener.py:350-358: one sleep of _retry_route ends and route_message runs.
RetrySleep(i) ==
    /\ retry[i].pc = "sleep"
    /\ LET w == retry[i].w
           o == RouteOutcome(w, _sessions, sess)
       IN  IF o = "query"
           THEN retry' = [retry EXCEPT ![i].pc = "rquery", ![i].c = sess[_sessions[w]].client]
           ELSE IF o = "raise" \/ retry[i].attempt + 1 >= RetryAttempts
           THEN retry' = [retry EXCEPT ![i] = NoRetry]
           ELSE retry' = [retry EXCEPT ![i].attempt = @ + 1]
    /\ UNCHANGED <<dbStatus, dbSessionId, worktree, branch, _sessions, sess, connected,
                   busy, task, nextTask, relay, _resuming, listener, stops, confirms,
                   nRequests>>
    /\ UNCHANGED <<hook, merge_state>>
    /\ UNCHANGED shutdown
    /\ UNCHANGED statusEvent
    /\ UNCHANGED cloneHead
    /\ UNCHANGED pulsed
    /\ UNCHANGED approvalVars
    /\ UNCHANGED matching

\* listener.py:354-357: the client.query of a retry ends, delivered or raising.
RetryQuery(i) ==
    /\ retry[i].pc = "rquery"
    /\ retry' = [retry EXCEPT ![i] = NoRetry]
    /\ busy' = IF retry[i].c \in connected THEN busy \cup {retry[i].c} ELSE busy
    /\ UNCHANGED <<dbStatus, dbSessionId, worktree, branch, _sessions, sess, connected,
                   task, nextTask, relay, _resuming, listener, stops, confirms, nRequests>>
    /\ UNCHANGED <<hook, merge_state>>
    /\ UNCHANGED shutdown
    /\ UNCHANGED statusEvent
    /\ UNCHANGED cloneHead
    /\ UNCHANGED pulsed
    /\ UNCHANGED approvalVars
    /\ UNCHANGED matching

\* ---------------------------------------------------------------- stop_hook
\* workload.py:222
_MAX_MERGE_RETRIES == 2

\* A mutation of CloneFree: a hook waits while the hook of another session
\* runs git in the clone.
CloneUnused(t) == \A u \in TaskIds \ {t} : hook[u].pc \in {"none", "stopped"}

\* workload.py:240-287: the hook takes no lock and waits for nothing before it
\* runs git in the clone.
CloneFree(t) == TRUE

\* workload.py:240-265: the agent of session t signals completion and the Stop
\* hook runs.  With the worktree gone it records success, with the retry budget
\* used up it records failure, and in both cases lets the agent stop; otherwise
\* it commits what is uncommitted and suspends on `git merge` in the clone.
HookEnter(t) ==
    /\ t \in connected /\ t \in busy
    /\ hook[t].pc = "none"
    /\ CloneFree(t)
    /\ IF ~worktree[task[t].w]
       THEN /\ merge_state' = [merge_state EXCEPT ![t].succeeded = "True"]
            /\ hook' = [hook EXCEPT ![t].pc = "stopped"]
       ELSE IF merge_state[t].retries >= _MAX_MERGE_RETRIES
       THEN /\ merge_state' = [merge_state EXCEPT ![t].succeeded = "False"]
            /\ hook' = [hook EXCEPT ![t].pc = "stopped"]
       ELSE /\ hook' = [hook EXCEPT ![t].pc = "merge"]
            /\ UNCHANGED merge_state
    /\ UNCHANGED <<dbStatus, dbSessionId, worktree, branch, _sessions, sess, connected,
                   busy, task, nextTask, relay, _resuming, listener, retry, stops,
                   confirms, nRequests>>
    /\ UNCHANGED shutdown
    /\ UNCHANGED statusEvent
    /\ UNCHANGED cloneHead
    /\ UNCHANGED pulsed
    /\ UNCHANGED approvalVars
    /\ UNCHANGED matching

\* A mutation of MergeSucceeded: every merge is taken as merged.
MergeSucceededAlways(rc) == TRUE

\* workload.py:289  `if rc == 0`
MergeSucceeded(rc) == rc = 0

\* workload.py:267-289: `git merge <branch> --no-edit`, run in the clone, ends
\* with return code rc: 0 when it merged the branch (only a branch that exists
\* can be) into the branch the clone has checked out, 1 otherwise.
HookMerge(t) ==
    /\ hook[t].pc = "merge"
    /\ \E rc \in {0, 1} :
          /\ rc = 0 => branch[task[t].w]
          /\ hook' = [hook EXCEPT ![t] = [pc |-> IF MergeSucceeded(rc) THEN "remove"
                                                 ELSE "abort",
                                          rc |-> rc,
                                          into |-> IF rc = 0 THEN cloneHead ELSE "none"]]
    /\ UNCHANGED <<dbStatus, dbSessionId, worktree, branch, _sessions, sess, connected,
                   busy, task, nextTask, relay, _resuming, listener, retry, stops,
                   confirms, nRequests, merge_state>>
    /\ UNCHANGED shutdown
    /\ UNCHANGED statusEvent
    /\ UNCHANGED cloneHead
    /\ UNCHANGED pulsed
    /\ UNCHANGED approvalVars
    /\ UNCHANGED matching

\* workload.py:306-325: `git merge --abort` ends; the retry counter goes up by
\* one and the agent is told to rebase and carry on.
HookAbort(t) ==
    /\ hook[t].pc = "abort"
    /\ merge_state' = [merge_state EXCEPT ![t].retries = @ + 1]
    /\ hook' = [hook EXCEPT ![t] = NoHook]
    /\ UNCHANGED <<dbStatus, dbSessionId, worktree, branch, _sessions, sess, connected,
                   busy, task, nextTask, relay, _resuming, listener, retry, stops,
                   confirms, nRequests>>
    /\ UNCHANGED shutdown
    /\ UNCHANGED statusEvent
    /\ UNCHANGED cloneHead
    /\ UNCHANGED pulsed
    /\ UNCHANGED approvalVars
    /\ UNCHANGED matching

\* workload.py:289-293: `git worktree remove --force` ends.
HookRemoveWorktree(t) ==
    /\ hook[t].pc = "remove"
    /\ worktree' = [worktree EXCEPT ![task[t].w] = FALSE]
    /\ hook' = [hook EXCEPT ![t].pc = "branch_d"]
    /\ UNCHANGED <<dbStatus, dbSessionId, branch, _sessions, sess, connected, busy, task,
                   nextTask, relay, _resuming, listener, retry, stops, confirms,
                   nRequests, merge_state>>
    /\ UNCHANGED shutdown
    /\ UNCHANGED statusEvent
    /\ UNCHANGED cloneHead
    /\ UNCHANGED pulsed
    /\ UNCHANGED approvalVars
    /\ UNCHANGED matching

\* workload.py:294-304: `git branch -d` ends (git refuses to delete a branch
\* that a worktree has checked out), the push is made, success is recorded and
\* the agent is let stop.
HookDeleteBranch(t) ==
    /\ hook[t].pc = "branch_d"
    /\ branch' = [branch EXCEPT ![task[t].w] = IF worktree[task[t].w] THEN @ ELSE FALSE]
    /\ merge_state' = [merge_state EXCEPT ![t].succeeded = "True"]
    /\ hook' = [hook EXCEPT ![t] = [pc |-> "stopped", rc |-> NoRc, into |-> "none"]]
    /\ UNCHANGED <<dbStatus, dbSessionId, worktree, _sessions, sess, connected, busy,
                   task, nextTask, relay, _resuming, listener, retry, stops, confirms,
                   nRequests>>
    /\ UNCHANGED shutdown
    /\ UNCHANGED statusEvent
    /\ UNCHANGED cloneHead
    /\ UNCHANGED pulsed
    /\ UNCHANGED approvalVars
    /\ UNCHANGED matching

\* ----------------------------------------------------------- _relay_messages
\* task.done() of the relay task of session start t.
RelayDone(t) == relay[t].pc \in {"done", "closed"}

\* workload.py:409-412: _start_heartbeat creates a heartbeat task and makes it
\* the current one; n is the number of live heartbeat tasks of the session.
_start_heartbeat(n) == n + 1

\* A mutation of _stop_heartbeat: the live heartbeat task is left running.
HeartbeatNotStopped(n) == n

\* workload.py:414-418: _stop_heartbeat cancels the current heartbeat task, if
\* it is live.
_stop_heartbeat(n) == IF n > 0 THEN n - 1 ELSE 0

\* workload.py:367-380: a live heartbeat task of session t wakes from its sleep
\* and publishes an agent_activity event.
HeartbeatPulse(t) ==
    /\ relay[t].hb > 0
    /\ pulsed' = [pulsed EXCEPT ![t] = ~@]
    /\ UNCHANGED <<dbStatus, dbSessionId, worktree, branch, _sessions, sess, connected,
                   busy, task, nextTask, relay, _resuming, listener, retry, stops,
                   confirms, nRequests>>
    /\ UNCHANGED <<hook, merge_state>>
    /\ UNCHANGED shutdown
    /\ UNCHANGED statusEvent
    /\ UNCHANGED cloneHead
    /\ UNCHANGED approvalVars
    /\ UNCHANGED matching

\* workload.py:431-471: an AssistantMessage is received from the working agent.
\* The heartbeat is stopped; with no blocks it is started again and the loop
\* goes on, otherwise the relay suspends on the publish of the turn's content.
RelayAssistant(t, blocks) ==
    /\ relay[t].pc = "recv" /\ ~relay[t].cancel
    /\ t \in connected /\ t \in busy
    /\ hook[t].pc = "none"
    /\ relay' = [relay EXCEPT
                    ![t].pc = IF blocks THEN "fwd" ELSE "recv",
                    ![t].hb = IF blocks THEN _stop_heartbeat(@)
                              ELSE _start_heartbeat(_stop_heartbeat(@))]
    /\ UNCHANGED <<dbStatus, dbSessionId, worktree, branch, _sessions, sess, connected,
                   busy, task, nextTask, _resuming, listener, retry, stops, confirms,
                   nRequests>>
    /\ UNCHANGED <<hook, merge_state>>
    /\ UNCHANGED shutdown
    /\ UNCHANGED statusEvent
    /\ UNCHANGED cloneHead
    /\ UNCHANGED pulsed
    /\ UNCHANGED approvalVars
    /\ UNCHANGED matching

\* workload.py:468-471: the publish of the turn's content ends, the heartbeat
\* is started again and the relay waits for the next message.
RelayForwarded(t) ==
    /\ relay[t].pc = "fwd" /\ ~relay[t].cancel
    /\ relay' = [relay EXCEPT ![t].pc = "recv", ![t].hb = _start_heartbeat(@)]
    /\ UNCHANGED <<dbStatus, dbSessionId, worktree, branch, _sessions, sess, connected,
                   busy, task, nextTask, _resuming, listener, retry, stops, confirms,
                   nRequests>>
    /\ UNCHANGED <<hook, merge_state>>
    /\ UNCHANGED shutdown
    /\ UNCHANGED statusEvent
    /\ UNCHANGED cloneHead
    /\ UNCHANGED pulsed
    /\ UNCHANGED approvalVars
    /\ UNCHANGED matching

\* The relay task of session start t gets to run.  A task cancelled before its
\* first step never runs its body (workload.py:834-835 with asyncio semantics).
\* Otherwise it starts the heartbeat task (workload.py:428) and suspends on the
\* agent's next message.
RelayStart(t) ==
    /\ relay[t].pc = "created"
    /\ relay' = [relay EXCEPT ![t] = IF relay[t].cancel THEN [pc |-> "done", cancel |-> FALSE, summary |-> "none", hb |-> 0, check |-> "none"]
                                     ELSE [pc |-> "recv", cancel |-> FALSE, summary |-> "none",
                                           hb |-> _start_heartbeat(0), check |-> "none"]]
    /\ UNCHANGED <<dbStatus, dbSessionId, worktree, branch, _sessions, sess, connected,
                   busy, task, nextTask, _resuming, listener, retry, stops, confirms,
                   nRequests>>
    /\ UNCHANGED <<hook, merge_state>>
    /\ UNCHANGED shutdown
    /\ UNCHANGED statusEvent
    /\ UNCHANGED cloneHead
    /\ UNCHANGED pulsed
    /\ UNCHANGED approvalVars
    /\ UNCHANGED matching

\* workload.py:512-521: the Stop hook has let the agent stop; its ResultMessage
\* is received and the relay suspends on the database connection.
RelayResult(t) ==
    /\ relay[t].pc = "recv" /\ ~relay[t].cancel
    /\ t \in connected /\ t \in busy
    /\ hook[t].pc = "stopped"
    /\ hook' = [hook EXCEPT ![t] = NoHook]
    /\ busy' = busy \ {t}
    /\ relay' = [relay EXCEPT ![t].pc = "res_db", ![t].hb = _stop_heartbeat(@)]
    /\ UNCHANGED <<dbStatus, dbSessionId, worktree, branch, _sessions, sess, connected,
                   task, nextTask, _resuming, listener, retry, stops, confirms, nRequests>>
    /\ UNCHANGED merge_state
    /\ UNCHANGED shutdown
    /\ UNCHANGED statusEvent
    /\ UNCHANGED cloneHead
    /\ UNCHANGED pulsed
    /\ UNCHANGED approvalVars
    /\ UNCHANGED matching

\* workload.py:521-529: UPDATE workloads SET status = 'needs_attention', session_id.
RelayResDb(t) ==
    /\ relay[t].pc = "res_db" /\ ~relay[t].cancel
    /\ dbStatus' = [dbStatus EXCEPT ![task[t].w] = "needs_attention"]
    /\ dbSessionId' = [dbSessionId EXCEPT ![task[t].w] = TRUE]
    /\ relay' = [relay EXCEPT ![t].pc = "res_pub"]
    /\ UNCHANGED <<worktree, branch, _sessions, sess, connected, busy, task, nextTask,
                   _resuming, listener, retry, stops, confirms, nRequests>>
    /\ UNCHANGED <<hook, merge_state>>
    /\ UNCHANGED shutdown
    /\ UNCHANGED statusEvent
    /\ UNCHANGED cloneHead
    /\ UNCHANGED pulsed
    /\ UNCHANGED approvalVars
    /\ UNCHANGED matching

\* workload.py:538-556: the notice the summary opens with, by the `succeeded`
\* value read.
SummaryFor(succeeded) ==
    IF succeeded = "True" THEN "merged"
    ELSE IF succeeded = "False" THEN "conflict"
    ELSE "generic"

\* workload.py:531-561: the needs_attention status event is published; the
\* summary is then built from the merge_state of the dict that the registry
\* holds for the workload now (`_sessions.get(workload_id, {})`), and the task
\* suspends on the lookup of the coordinator.
RelayResPub(t) ==
    /\ relay[t].pc = "res_pub" /\ ~relay[t].cancel
    /\ LET sid == _sessions[task[t].w]
           succeeded == IF sid = NoId THEN "None" ELSE merge_state[sid].succeeded
       IN  relay' = [relay EXCEPT ![t].pc = "summary_pub",
                                  ![t].summary = SummaryFor(succeeded)]
    /\ UNCHANGED <<dbStatus, dbSessionId, worktree, branch, _sessions, sess, connected,
                   busy, task, nextTask, _resuming, listener, retry, stops, confirms,
                   nRequests>>
    /\ UNCHANGED <<hook, merge_state>>
    /\ UNCHANGED shutdown
    /\ statusEvent' = [statusEvent EXCEPT ![task[t].w] = "needs_attention"]
    /\ UNCHANGED cloneHead
    /\ UNCHANGED pulsed
    /\ UNCHANGED approvalVars
    /\ UNCHANGED matching

\* workload.py:580  the consistency check is made after a merge the summary
\* reported, for a workload whose data names its project: the data of a
\* dispatched start does (listener.py:220), the data fetched for a resume does
\* not (workload.py:70-85).
ManifestChecked(t) == relay[t].summary = "merged" /\ task[t].kind = "start"

\* workload.py:562-607: the summary is published to the delegating chat.  After
\* a merge the relay suspends on the POST of the consistency check; otherwise
\* the screencast is stopped, the registry entry of the workload popped
\* (whichever dict it holds now) and the task returns.  The client is not
\* disconnected here.
RelayPop(t) ==
    /\ relay[t].pc = "summary_pub" /\ ~relay[t].cancel
    /\ IF ManifestChecked(t)
       THEN /\ relay' = [relay EXCEPT ![t].pc = "manifest"]
            /\ UNCHANGED _sessions
       ELSE /\ _sessions' = [_sessions EXCEPT ![task[t].w] = NoId]
            /\ relay' = [relay EXCEPT ![t].pc = "done", ![t].summary = "none"]
    /\ UNCHANGED <<dbStatus, dbSessionId, worktree, branch, sess, connected, busy, task,
                   nextTask, _resuming, listener, retry, stops, confirms, nRequests>>
    /\ UNCHANGED <<hook, merge_state>>
    /\ UNCHANGED shutdown
    /\ UNCHANGED statusEvent
    /\ UNCHANGED cloneHead
    /\ UNCHANGED pulsed
    /\ UNCHANGED approvalVars
    /\ UNCHANGED matching

\* the answers of the consistency check: 200, another status code, an
\* exception (connection error, timeout, unreadable body)
CheckOutcomes == {"ok", "error", "exception"}

\* A mutation of AfterCheck: an exception of the check leaves the result
\* branch for the error handler of the relay.
AfterCheckRaised(r) == IF r = "exception" THEN "err_db" ELSE "done"

\* workload.py:581-603: where the relay goes after the check answered r: every
\* outcome is logged inside the try and the branch goes on to its end.
AfterCheck(r) == "done"

\* workload.py:581-607: the consistency check ends with outcome r; the
\* screencast is stopped, the registry entry of the workload popped and the
\* task returns.
RelayManifest(t, r) ==
    /\ relay[t].pc = "manifest" /\ ~relay[t].cancel
    /\ relay' = [relay EXCEPT ![t].pc = AfterCheck(r), ![t].summary = "none",
                              ![t].check = r]
    /\ _sessions' = IF AfterCheck(r) = "done" THEN [_sessions EXCEPT ![task[t].w] = NoId]
                    ELSE _sessions
    /\ UNCHANGED <<dbStatus, dbSessionId, worktree, branch, sess, connected, busy, task,
                   nextTask, _resuming, listener, retry, stops, confirms, nRequests>>
    /\ UNCHANGED <<hook, merge_state>>
    /\ UNCHANGED shutdown
    /\ UNCHANGED statusEvent
    /\ UNCHANGED cloneHead
    /\ UNCHANGED pulsed
    /\ UNCHANGED approvalVars
    /\ UNCHANGED matching

\* workload.py:609-614: CancelledError is raised at the await the task is
\* suspended on; the handler stops the screencast and pops the registry entry
\* of the workload.
RelayCancelled(t) ==
    /\ relay[t].pc \in {"recv", "fwd", "res_db", "res_pub", "summary_pub", "manifest"}
    /\ relay[t].cancel
    /\ _sessions' = [_sessions EXCEPT ![task[t].w] = NoId]
    /\ relay' = [relay EXCEPT ![t] = [pc |-> "done", cancel |-> FALSE, summary |-> "none",
                                      hb |-> _stop_heartbeat(relay[t].hb), check |-> "none"]]
    /\ UNCHANGED <<dbStatus, dbSessionId, worktree, branch, sess, connected, busy, task,
                   nextTask, _resuming, listener, retry, stops, confirms, nRequests>>
    /\ UNCHANGED <<hook, merge_state>>
    /\ UNCHANGED shutdown
    /\ UNCHANGED statusEvent
    /\ UNCHANGED cloneHead
    /\ UNCHANGED pulsed
    /\ UNCHANGED approvalVars
    /\ UNCHANGED matching

\* workload.py:426 and 615-618: an exception comes out of the relay loop while
\* it waits for the agent's next message (the process died, or a message could
\* not be relayed); the handler cancels the heartbeat task and suspends on the
\* database connection.  Failures come out of the same budget as the external
\* requests.
RelayError(t, dead) ==
    /\ relay[t].pc \in {"recv", "fwd"} /\ ~relay[t].cancel
    /\ t \in connected
    /\ nRequests < MaxRequests
    /\ nRequests' = nRequests + 1
    /\ connected' = IF dead THEN connected \ {t} ELSE connected
    /\ busy' = IF dead THEN busy \ {t} ELSE busy
    /\ relay' = [relay EXCEPT ![t].pc = "err_db", ![t].hb = _stop_heartbeat(@)]
    /\ UNCHANGED <<dbStatus, dbSessionId, worktree, branch, _sessions, sess, task,
                   nextTask, _resuming, listener, retry, stops, confirms>>
    /\ UNCHANGED <<hook, merge_state>>
    /\ UNCHANGED shutdown
    /\ UNCHANGED statusEvent
    /\ UNCHANGED cloneHead
    /\ UNCHANGED pulsed
    /\ UNCHANGED approvalVars
    /\ UNCHANGED matching

\* workload.py:619-627: UPDATE workloads SET status = 'needs_attention'; no
\* session handle is written on this path.
RelayErrDb(t) ==
    /\ relay[t].pc = "err_db" /\ ~relay[t].cancel
    /\ dbStatus' = [dbStatus EXCEPT ![task[t].w] = "needs_attention"]
    /\ relay' = [relay EXCEPT ![t].pc = "err_pub"]
    /\ UNCHANGED <<dbSessionId, worktree, branch, _sessions, sess, connected, busy, task,
                   nextTask, _resuming, listener, retry, stops, confirms, nRequests>>
    /\ UNCHANGED <<hook, merge_state>>
    /\ UNCHANGED shutdown
    /\ UNCHANGED statusEvent
    /\ UNCHANGED cloneHead
    /\ UNCHANGED pulsed
    /\ UNCHANGED approvalVars
    /\ UNCHANGED matching

\* workload.py:628-635: the registry after an error handler that kept the
\* entry (as it would be had the failure of the update left the handler).
AfterHandlerKept(reg, w) == reg

\* workload.py:635: the last statement of the error handler,
\* `_sessions.pop(workload_id, None)`.
AfterHandler(reg, w) == [reg EXCEPT ![w] = NoId]

\* workload.py:628-635: the needs_attention status event, then the registry
\* entry of the workload is popped and the task ends.  The client is not
\* disconnected here.
RelayErrPub(t) ==
    /\ relay[t].pc = "err_pub" /\ ~relay[t].cancel
    /\ _sessions' = AfterHandler(_sessions, task[t].w)
    /\ relay' = [relay EXCEPT ![t].pc = "done"]
    /\ UNCHANGED <<dbStatus, dbSessionId, worktree, branch, sess, connected, busy, task,
                   nextTask, _resuming, listener, retry, stops, confirms, nRequests>>
    /\ UNCHANGED <<hook, merge_state>>
    /\ UNCHANGED shutdown
    /\ statusEvent' = [statusEvent EXCEPT ![task[t].w] = "needs_attention"]
    /\ UNCHANGED cloneHead
    /\ UNCHANGED pulsed
    /\ UNCHANGED approvalVars
    /\ UNCHANGED matching

\* workload.py:619-635: the status update fails (the connection, the UPDATE or
\* the publish raises): `except Exception` logs it, the registry entry of the
\* workload is popped and the task ends without an exception.
RelayErrFailed(t) ==
    /\ relay[t].pc \in {"err_db", "err_pub"} /\ ~relay[t].cancel
    /\ _sessions' = AfterHandler(_sessions, task[t].w)
    /\ relay' = [relay EXCEPT ![t].pc = "done"]
    /\ UNCHANGED <<dbStatus, dbSessionId, worktree, branch, sess, connected, busy, task,
                   nextTask, _resuming, listener, retry, stops, confirms, nRequests>>
    /\ UNCHANGED <<hook, merge_state>>
    /\ UNCHANGED shutdown
    /\ UNCHANGED statusEvent
    /\ UNCHANGED cloneHead
    /\ UNCHANGED pulsed
    /\ UNCHANGED approvalVars
    /\ UNCHANGED matching

\* workload.py:615-635: a cancellation that arrives while the error handler is
\* suspended is raised inside the handler, where neither except clause applies:
\* the task ends without popping the registry entry.
RelayErrCancelled(t) ==
    /\ relay[t].pc \in {"err_db", "err_pub"}
    /\ relay[t].cancel
    /\ relay' = [relay EXCEPT ![t] = [pc |-> "done", cancel |-> FALSE, summary |-> "none", hb |-> 0, check |-> "none"]]
    /\ UNCHANGED <<dbStatus, dbSessionId, worktree, branch, _sessions, sess, connected,
                   busy, task, nextTask, _resuming, listener, retry, stops, confirms,
                   nRequests>>
    /\ UNCHANGED <<hook, merge_state>>
    /\ UNCHANGED shutdown
    /\ UNCHANGED statusEvent
    /\ UNCHANGED cloneHead
    /\ UNCHANGED pulsed
    /\ UNCHANGED approvalVars
    /\ UNCHANGED matching

\* workload.py:426 and 607-609: the agent's output stream ends without a
\* ResultMessage (the process has gone away quietly): the `async for` is left,
\* no except clause runs and the function returns.  Nothing is written and the
\* registry entry stays.
RelayClosed(t) ==
    /\ relay[t].pc = "recv" /\ ~relay[t].cancel
    /\ t \in connected
    /\ nRequests < MaxRequests
    /\ nRequests' = nRequests + 1
    /\ connected' = connected \ {t}
    /\ busy' = busy \ {t}
    /\ relay' = [relay EXCEPT ![t].pc = "closed"]
    /\ UNCHANGED <<dbStatus, dbSessionId, worktree, branch, _sessions, sess, task,
                   nextTask, _resuming, listener, retry, stops, confirms>>
    /\ UNCHANGED <<hook, merge_state>>
    /\ UNCHANGED shutdown
    /\ UNCHANGED statusEvent
    /\ UNCHANGED cloneHead
    /\ UNCHANGED pulsed
    /\ UNCHANGED approvalVars
    /\ UNCHANGED matching

\* ------------------------------------------------------- shutdown_all_sessions
\* The sessions of a snapshot that shutdown_all_sessions has something to do
\* for: those that hold a client by now (an entry without a client has no task
\* either, workload.py:713-722).
WithClient(todo) == {sid \in todo : sess[sid].client # NoId}

\* workload.py:875-886, one round of the loop: the relay task of the next
\* session with a client is cancelled and the call suspends on its
\* disconnect; with none left, _sessions.clear() and the return.
ShutdownLoop(todo) ==
    IF WithClient(todo) = {}
    THEN /\ _sessions' = [w \in DOMAIN _sessions |-> NoId]
         /\ shutdown' = [pc |-> "done", todo |-> {}, client |-> NoId]
         /\ UNCHANGED relay
    ELSE \E sid \in WithClient(todo) :
            /\ relay' = IF sess[sid].task # NoId /\ ~RelayDone(sess[sid].task)
                        THEN [relay EXCEPT ![sess[sid].task].cancel = TRUE] ELSE relay
            /\ shutdown' = [pc |-> "disconnect", todo |-> todo \ {sid},
                            client |-> sess[sid].client]
            /\ UNCHANGED _sessions

\* main.py:55: the service is stopped and shutdown_all_sessions is called,
\* while the listeners and the tasks they created are still running.
ShutdownCall ==
    /\ shutdown.pc = "idle"
    /\ nRequests < MaxRequests
    /\ nRequests' = nRequests + 1
    /\ ShutdownLoop({_sessions[w] : w \in DOMAIN _sessions} \ {NoId})
    /\ UNCHANGED <<dbStatus, dbSessionId, worktree, branch, sess, connected, busy, task,
                   nextTask, _resuming, listener, retry, stops, confirms>>
    /\ UNCHANGED <<hook, merge_state>>
    /\ UNCHANGED statusEvent
    /\ UNCHANGED cloneHead
    /\ UNCHANGED pulsed
    /\ UNCHANGED approvalVars
    /\ UNCHANGED matching

\* workload.py:881-886: client.disconnect() ends and the loop goes on.
ShutdownDisconnect ==
    /\ shutdown.pc = "disconnect"
    /\ connected' = connected \ {shutdown.client}
    /\ busy' = busy \ {shutdown.client}
    /\ ShutdownLoop(shutdown.todo)
    /\ UNCHANGED <<dbStatus, dbSessionId, worktree, branch, sess, task, nextTask,
                   _resuming, listener, retry, stops, confirms, nRequests>>
    /\ UNCHANGED <<hook, merge_state>>
    /\ UNCHANGED statusEvent
    /\ UNCHANGED cloneHead
    /\ UNCHANGED pulsed
    /\ UNCHANGED approvalVars
    /\ UNCHANGED matching

\* ------------------------------------------------------ stop_workload_session
\* The start and resume tasks of workload w that exist so far.
TasksOf(w) == {t \in TaskIds : task[t].kind # "none" /\ task[t].w = w}

\* main.py:70-85 and workload.py:828-841: interrupt (needs_attention) or cancel
\* (cancelled) for id w.  The entry is popped, its relay task cancelled, and
\* with a client the call suspends on disconnect, otherwise on the database.
\* `seen` keeps the tasks of the workload that exist when the request arrives.
StopCall(w, target) ==
    /\ nRequests < MaxRequests
    /\ nRequests' = nRequests + 1
    /\ LET sid == IF w \in DOMAIN _sessions THEN _sessions[w] ELSE NoId
           tk == IF sid = NoId THEN NoId ELSE sess[sid].task
           cl == IF sid = NoId THEN NoId ELSE sess[sid].client
       IN  /\ _sessions' = IF sid = NoId THEN _sessions
                           ELSE [_sessions EXCEPT ![w] = NoId]
           /\ relay' = IF tk # NoId /\ ~RelayDone(tk)
                       THEN [relay EXCEPT ![tk].cancel = TRUE] ELSE relay
           /\ stops' = [stops EXCEPT ![FreeSlot(stops)] =
                            [w |-> w, target |-> target,
                             pc |-> IF cl # NoId THEN "disconnect" ELSE "db",
                             client |-> cl, seen |-> TasksOf(w), http |-> 0]]
    /\ UNCHANGED <<dbStatus, dbSessionId, worktree, branch, sess, connected, busy, task,
                   nextTask, _resuming, listener, retry, confirms>>
    /\ UNCHANGED <<hook, merge_state>>
    /\ UNCHANGED shutdown
    /\ UNCHANGED statusEvent
    /\ UNCHANGED cloneHead
    /\ UNCHANGED pulsed
    /\ UNCHANGED approvalVars
    /\ UNCHANGED matching

\* workload.py:836-841: client.disconnect() ends.
StopDisconnect(i) ==
    /\ stops[i].pc = "disconnect"
    /\ connected' = connected \ {stops[i].client}
    /\ busy' = busy \ {stops[i].client}
    /\ stops' = [stops EXCEPT ![i].pc = "db", ![i].client = NoId]
    /\ UNCHANGED <<dbStatus, dbSessionId, worktree, branch, _sessions, sess, task,
                   nextTask, relay, _resuming, listener, retry, confirms, nRequests>>
    /\ UNCHANGED <<hook, merge_state>>
    /\ UNCHANGED shutdown
    /\ UNCHANGED statusEvent
    /\ UNCHANGED cloneHead
    /\ UNCHANGED pulsed
    /\ UNCHANGED approvalVars
    /\ UNCHANGED matching

\* A mutation of Found: the UPDATE is taken to have matched a row for any id.
FoundAlways(w) == TRUE

\* workload.py:846-851: the UPDATE matches a row (its result is not "UPDATE 0")
\* exactly for the id of a workload.
Found(w) == w \in Workloads

\* main.py:73-76 and 82-85: the answer of the endpoint.
HttpStatus(found) == IF found THEN 200 ELSE 404

\* workload.py:843-864: UPDATE workloads SET status = target_status.  With no
\* row matched the call returns False; otherwise the room is looked up and the
\* call suspends on the publication.
StopDb(i) ==
    /\ stops[i].pc = "db"
    /\ IF Found(stops[i].w)
       THEN /\ dbStatus' = [w \in DOMAIN dbStatus |->
                                IF w = stops[i].w THEN stops[i].target ELSE dbStatus[w]]
            /\ stops' = [stops EXCEPT ![i].pc = "publish"]
       ELSE /\ stops' = [stops EXCEPT ![i].pc = "reply", ![i].http = HttpStatus(FALSE)]
            /\ UNCHANGED dbStatus
    /\ UNCHANGED <<dbSessionId, worktree, branch, _sessions, sess, connected, busy, task,
                   nextTask, relay, _resuming, listener, retry, confirms, nRequests>>
    /\ UNCHANGED <<hook, merge_state>>
    /\ UNCHANGED shutdown
    /\ UNCHANGED statusEvent
    /\ UNCHANGED cloneHead
    /\ UNCHANGED pulsed
    /\ UNCHANGED approvalVars
    /\ UNCHANGED matching

\* workload.py:866-870: the status event of the stop, then the return of True.
StopPublish(i) ==
    /\ stops[i].pc = "publish"
    /\ stops' = [stops EXCEPT ![i].pc = "reply", ![i].http = HttpStatus(TRUE)]
    /\ UNCHANGED <<dbStatus, dbSessionId, worktree, branch, _sessions, sess, connected,
                   busy, task, nextTask, relay, _resuming, listener, retry, confirms,
                   nRequests>>
    /\ UNCHANGED <<hook, merge_state>>
    /\ UNCHANGED shutdown
    /\ statusEvent' = [statusEvent EXCEPT ![stops[i].w] = stops[i].target]
    /\ UNCHANGED cloneHead
    /\ UNCHANGED pulsed
    /\ UNCHANGED approvalVars
    /\ UNCHANGED matching

\* main.py:73-76: the request is answered and so completed.  The tasks it saw
\* on arrival are marked as overtaken by a completed stop.
StopReply(i) ==
    /\ stops[i].pc = "reply"
    /\ task' = [t \in TaskIds |-> IF t \in stops[i].seen
                                  THEN [task[t] EXCEPT !.stopped = TRUE] ELSE task[t]]
    /\ stops' = [stops EXCEPT ![i] = NoStop]
    /\ UNCHANGED <<dbStatus, dbSessionId, worktree, branch, _sessions, sess, connected,
                   busy, nextTask, relay, _resuming, listener, retry, confirms,
                   nRequests>>
    /\ UNCHANGED <<hook, merge_state>>
    /\ UNCHANGED shutdown
    /\ UNCHANGED statusEvent
    /\ UNCHANGED cloneHead
    /\ UNCHANGED pulsed
    /\ UNCHANGED approvalVars
    /\ UNCHANGED matching

\* ------------------------------------- update_workload_status (API service)
\* routes/workloads.py:115-128: the row is selected.  No row is answered 404,
\* a status other than needs_attention is answered 409, and otherwise the call
\* suspends on the commit.
ConfirmSelect(w) ==
    /\ nRequests < MaxRequests
    /\ nRequests' = nRequests + 1
    /\ confirms' = [confirms EXCEPT ![FreeSlot(confirms)] =
                       IF w \notin DOMAIN dbStatus
                       THEN [w |-> w, pc |-> "reply", http |-> 404]
                       ELSE IF dbStatus[w] # "needs_attention"
                       THEN [w |-> w, pc |-> "reply", http |-> 409]
                       ELSE [w |-> w, pc |-> "commit", http |-> 0]]
    /\ UNCHANGED <<dbStatus, dbSessionId, worktree, branch, _sessions, sess, connected,
                   busy, task, nextTask, relay, _resuming, listener, retry, stops>>
    /\ UNCHANGED <<hook, merge_state>>
    /\ UNCHANGED shutdown
    /\ UNCHANGED statusEvent
    /\ UNCHANGED cloneHead
    /\ UNCHANGED pulsed
    /\ UNCHANGED approvalVars
    /\ UNCHANGED matching

\* routes/workloads.py:130-132: the commit writes status = 'completed' to the
\* row, whatever its status is by now.
ConfirmCommit(i) ==
    /\ confirms[i].pc = "commit"
    /\ dbStatus' = [dbStatus EXCEPT ![confirms[i].w] = "completed"]
    /\ confirms' = [confirms EXCEPT ![i].pc = "publish"]
    /\ UNCHANGED <<dbSessionId, worktree, branch, _sessions, sess, connected, busy, task,
                   nextTask, relay, _resuming, listener, retry, stops, nRequests>>
    /\ UNCHANGED <<hook, merge_state>>
    /\ UNCHANGED shutdown
    /\ UNCHANGED statusEvent
    /\ UNCHANGED cloneHead
    /\ UNCHANGED pulsed
    /\ UNCHANGED approvalVars
    /\ UNCHANGED matching

\* routes/workloads.py:134-157: the 'completed' status event, then the return.
ConfirmPublish(i) ==
    /\ confirms[i].pc = "publish"
    /\ confirms' = [confirms EXCEPT ![i].pc = "reply", ![i].http = 200]
    /\ UNCHANGED <<dbStatus, dbSessionId, worktree, branch, _sessions, sess, connected,
                   busy, task, nextTask, relay, _resuming, listener, retry, stops,
                   nRequests>>
    /\ UNCHANGED <<hook, merge_state>>
    /\ UNCHANGED shutdown
    /\ statusEvent' = [statusEvent EXCEPT ![confirms[i].w] = "completed"]
    /\ UNCHANGED cloneHead
    /\ UNCHANGED pulsed
    /\ UNCHANGED approvalVars
    /\ UNCHANGED matching

\* routes/workloads.py:122-128 and 157: the request is answered.
ConfirmReply(i) ==
    /\ confirms[i].pc = "reply"
    /\ confirms' = [confirms EXCEPT ![i] = NoConfirm]
    /\ UNCHANGED <<dbStatus, dbSessionId, worktree, branch, _sessions, sess, connected,
                   busy, task, nextTask, relay, _resuming, listener, retry, stops,
                   nRequests>>
    /\ UNCHANGED <<hook, merge_state>>
    /\ UNCHANGED shutdown
    /\ UNCHANGED statusEvent
    /\ UNCHANGED cloneHead
    /\ UNCHANGED pulsed
    /\ UNCHANGED approvalVars
    /\ UNCHANGED matching

\* routes/projects.py:221-262: update_project of the API service checks out
\* another branch in the canonical clone.
Checkout(b) ==
    /\ b # cloneHead
    /\ cloneHead' = b
    /\ UNCHANGED pulsed
    /\ UNCHANGED <<dbStatus, dbSessionId, worktree, branch, _sessions, sess, connected,
                   busy, task, nextTask, relay, _resuming, listener, retry, stops,
                   confirms, nRequests>>
    /\ UNCHANGED <<hook, merge_state>>
    /\ UNCHANGED shutdown
    /\ UNCHANGED statusEvent
    /\ UNCHANGED approvalVars
    /\ UNCHANGED matching

\* ------------------------------------------------------------ specification
Next ==
    \/ \E w \in Workloads : Dispatch(w)
    \/ \E t \in TaskIds : StartEntry(t)
    \/ \E t \in TaskIds : GitAdd(t)
    \/ \E t \in TaskIds : GitAttach(t)
    \/ \E t \in TaskIds : WtFailedDb(t)
    \/ \E t \in TaskIds : WtFailedPub(t)
    \/ \E t \in TaskIds : DbRunning(t)
    \/ \E t \in TaskIds : PubRunning(t)
    \/ \E t \in TaskIds : Connect(t)
    \/ \E t \in TaskIds : CfDb(t)
    \/ \E t \in TaskIds : CfPub(t)
    \/ \E t \in TaskIds : InitialQuery(t)
    \/ \E t \in TaskIds : RouteQuery(t)
    \/ \E w \in Workloads : Receive(w)
    \/ ListenerQuery
    \/ Fetch
    \/ \E i \in Slots : RetrySleep(i)
    \/ \E i \in Slots : RetryQuery(i)
    \/ \E t \in TaskIds : HookEnter(t)
    \/ \E t \in TaskIds : HookMerge(t)
    \/ \E t \in TaskIds : HookAbort(t)
    \/ \E t \in TaskIds : HookRemoveWorktree(t)
    \/ \E t \in TaskIds : HookDeleteBranch(t)
    \/ \E t \in TaskIds : RelayStart(t)
    \/ \E t \in TaskIds : RelayResult(t)
    \/ \E t \in TaskIds : RelayResDb(t)
    \/ \E t \in TaskIds : RelayResPub(t)
    \/ \E t \in TaskIds : RelayPop(t)
    \/ \E t \in TaskIds, r \in CheckOutcomes : RelayManifest(t, r)
    \/ \E t \in TaskIds : RelayCancelled(t)
    \/ \E t \in TaskIds, dead \in BOOLEAN : RelayError(t, dead)
    \/ \E t \in TaskIds : RelayErrDb(t)
    \/ \E t \in TaskIds : RelayErrPub(t)
    \/ \E t \in TaskIds : RelayErrFailed(t)
    \/ \E t \in TaskIds : RelayErrCancelled(t)
    \/ \E t \in TaskIds : RelayClosed(t)
    \/ ShutdownCall
    \/ ShutdownDisconnect
    \/ \E w \in StopIds, target \in {"needs_attention", "cancelled"} : StopCall(w, target)
    \/ \E i \in Slots : StopDisconnect(i)
    \/ \E i \in Slots : StopDb(i)
    \/ \E i \in Slots : StopPublish(i)
    \/ \E i \in Slots : StopReply(i)
    \/ \E w \in StopIds : ConfirmSelect(w)
    \/ \E i \in Slots : ConfirmCommit(i)
    \/ \E i \in Slots : ConfirmPublish(i)
    \/ \E i \in Slots : ConfirmReply(i)

Spec == Init /\ [][Next]_vars

\* ======================================================= lifecycle properties
\* C1: under any interleaving of starts and resumes, at most one agent process
\* is connected for a workload at any time.
OneProcessPerWorkload ==
    \A w \in Workloads : Cardinality({t \in connected : task[t].w = w}) <= 1

\* C2: at most one _resume_and_deliver is in flight (its body started and not
\* yet ended) for a workload at any time.
OneResumeInFlight ==
    \A w \in Workloads :
        Cardinality({t \in TaskIds : /\ task[t].kind = "resume"
                                     /\ task[t].w = w
                                     /\ task[t].pc \notin {"free", "created", "done", "failed"}}) <= 1

\* C3: every change of the durable status is one of assigned -> running,
\* running -> needs_attention, any -> cancelled, needs_attention -> running,
\* completed -> running, needs_attention -> completed.
OnlyDeclaredTransitions ==
    [][\A w \in Workloads :
          dbStatus'[w] # dbStatus[w] =>
              \/ dbStatus'[w] = "cancelled"
              \/ <<dbStatus[w], dbStatus'[w]>> \in
                     {<<"assigned", "running">>, <<"running", "needs_attention">>,
                      <<"needs_attention", "running">>, <<"completed", "running">>,
                      <<"needs_attention", "completed">>}]_vars

\* C4: a follow-up for a workload with no active session schedules a resume
\* exactly when the fetched row holds a session handle and its status is
\* needs_attention or completed; otherwise the step starts no task, connects no
\* process, creates no registry entry and leaves the status unchanged; and a
\* resume task is never created in any other way.
ResumeOnlyWhenEligible ==
    [][/\ listener.pc = "fetch" /\ listener'.pc # "fetch" =>
            LET w == listener.w
            IN  IF dbSessionId[w] /\ dbStatus[w] \in {"needs_attention", "completed"}
                THEN /\ task'[nextTask] = [FreeTask EXCEPT !.kind = "resume", !.w = w,
                                                           !.pc = "created"]
                     /\ \A t \in TaskIds \ {nextTask} : task'[t] = task[t]
                ELSE /\ task' = task /\ nextTask' = nextTask
                     /\ connected' = connected /\ _sessions' = _sessions
                     /\ sess' = sess /\ dbStatus' = dbStatus
       /\ \A t \in TaskIds :
            task[t].pc = "free" /\ task'[t].kind = "resume" =>
                /\ listener.pc = "fetch"
                /\ task'[t].w = listener.w
                /\ dbSessionId[listener.w]
                /\ dbStatus[listener.w] \in {"needs_attention", "completed"}]_vars

\* C4, its case: a follow-up found no session and a resumable row, and its
\* resume task is scheduled.
ResumeScheduled ==
    \E t \in TaskIds : task[t].kind = "resume" /\ task[t].pc = "created"

\* C5: once the status is cancelled, no resume started by a follow-up sets it to
\* running or connects a process.
NoResumeAfterCancel ==
    [][\A t \in TaskIds :
          task[t].kind = "resume" /\ dbStatus[task[t].w] = "cancelled" =>
              /\ dbStatus'[task[t].w] # "running"
              /\ t \in connected' => t \in connected]_vars

\* C6: start_workload_session called for a workload that has a registry entry
\* returns without changing the entry, the status or the worktree, without
\* connecting a process or scheduling a relay task, and without getting to any
\* step that publishes a status event.
StartIsNoOpWhenRegistered ==
    [][\A t \in TaskIds :
          /\ task[t].pc = "created" /\ task'[t].pc # "created"
          /\ _sessions[task[t].w] # NoId
          => /\ _sessions' = _sessions /\ sess' = sess
             /\ dbStatus' = dbStatus /\ dbSessionId' = dbSessionId
             /\ worktree' = worktree /\ branch' = branch
             /\ connected' = connected /\ relay' = relay
             /\ task'[t].ret = "exists"
             /\ task'[t].pc \in {"done", "route_query"}]_vars

\* C6, its case: a start found the workload registered and returned.
StartFoundEntry ==
    \E t \in TaskIds : task[t].ret = "exists"

\* ------------------------------------------------------ tool approval bridge
StartsWith(s, prefix) == Len(s) >= Len(prefix) /\ SubSeq(s, 1, Len(prefix)) = prefix
EndsWith(s, suffix) ==
    Len(s) >= Len(suffix) /\ SubSeq(s, Len(s) - Len(suffix) + 1, Len(s)) = suffix

\* The tool calls the agent makes: tool_name, the words of tool_input["command"]
\* (the result of cmd.split()) and the rule the CLI suggests, "" for none.
GitPush == [tool_name |-> "Bash", parts |-> <<"git", "push", "origin", "main">>, suggestion |-> ""]
GitPull == [tool_name |-> "Bash", parts |-> <<"git", "pull">>, suggestion |-> ""]
WriteFile == [tool_name |-> "Write", parts |-> <<>>, suggestion |-> ""]
\* the same push with a rule suggested by the CLI, which becomes the key
\* (tool_approval.py:75-92)
GitPushSuggested == [tool_name |-> "Bash", parts |-> <<"git", "push", "origin", "main">>,
                     suggestion |-> "Bash(git push origin main)"]
ToolCalls == {GitPush, GitPull, WriteFile, GitPushSuggested}

\* tool_approval.py:63-112: the first suggested rule if there is one; for Bash
\* the first two words of the command as "Bash(<prefix>:*)"; otherwise the
\* tool name.
_build_permission_key(tool) ==
    IF tool.suggestion # "" THEN tool.suggestion
    ELSE IF tool.tool_name = "Bash" /\ Len(tool.parts) >= 2
    THEN "Bash(" \o tool.parts[1] \o " " \o tool.parts[2] \o ":*)"
    ELSE IF tool.tool_name = "Bash" /\ Len(tool.parts) = 1
    THEN "Bash(" \o tool.parts[1] \o ":*)"
    ELSE IF tool.tool_name = "Bash" THEN "Bash(:*)"
    ELSE tool.tool_name

\* tool_approval.py:115-143: exact key, bare tool name, "...:*)" prefix wildcard
\* (the pattern without its last two characters), "Tool(*)" glob.
_tool_matches(tool, allowed) ==
    LET permission_key == _build_permission_key(tool)
    IN  \E k \in 1..Len(allowed) :
            LET pattern == allowed[k]
            IN  \/ pattern = permission_key
                \/ pattern = tool.tool_name
                \/ /\ EndsWith(pattern, ":*)")
                   /\ StartsWith(permission_key, SubSeq(pattern, 1, Len(pattern) - 2))
                \/ pattern = tool.tool_name \o "(*)"

\* the check that skips the session's approvals
NeedsApprovalProjectOnly(tool, project, session) == ~_tool_matches(tool, project)

\* tool_approval.py:224-231: the human is asked when neither the project's
\* allow-list (read first) nor the session's approvals (read second) allow the call.
NeedsApproval(tool, project, session) ==
    /\ ~_tool_matches(tool, project)
    /\ _build_permission_key(tool) \notin session

\* A mutation of _write_project_allowed_tool: the key is appended without
\* looking for it in the list.
AppendsAlways(allow_list, permission_key) == Append(allow_list, permission_key)

\* tool_approval.py:39-57: the key is appended unless the list holds it.
_write_project_allowed_tool(allow_list, permission_key) ==
    IF \E k \in 1..Len(allow_list) : allow_list[k] = permission_key
    THEN allow_list
    ELSE Append(allow_list, permission_key)

\* A mutation of SessionApprovals: one set of approvals shared by all sessions.
AnySessionApprovals(sid) == UNION {session_approvals[s] : s \in TaskIds}

\* workload.py:720 and 724-733, tool_approval.py:228: the approvals a callback
\* reads are the set of the session dict it was made for.
SessionApprovals(sid) == session_approvals[sid]

\* tool_approval.py:216-262: the agent of session dict sid asks to use a tool.
\* An allowed call returns at once.  Otherwise a Future is stored under a fresh
\* request id in the session's pending map and the callback suspends on the
\* publication of the approval request.
CallTool(sid, tool) ==
    /\ sid \in connected
    /\ \E c \in CallIds :
        /\ calls[c].pc = "free"
        /\ \A d \in CallIds : calls[d].pc = "free" => c <= d
        /\ IF NeedsApproval(tool, settingsAllow, SessionApprovals(sid))
           THEN /\ calls' = [calls EXCEPT ![c] =
                                [sid |-> sid, tool |-> tool, key |-> _build_permission_key(tool),
                                 pc |-> "publish", rid |-> nextReq, outcome |-> "none"]]
                /\ future' = [future EXCEPT ![nextReq] = [state |-> "pending", decision |-> "none"]]
                /\ pending_approvals' = [pending_approvals EXCEPT ![sid] = @ \cup {nextReq}]
                /\ nextReq' = nextReq + 1
           ELSE /\ calls' = [calls EXCEPT ![c] =
                                [sid |-> sid, tool |-> tool, key |-> _build_permission_key(tool),
                                 pc |-> "returned", rid |-> NoId, outcome |-> "allow"]]
                /\ UNCHANGED <<future, pending_approvals, nextReq>>
    /\ UNCHANGED <<settingsAllow, session_approvals, published, accepted, rejected,
                   nDecisions>>
    /\ UNCHANGED lifecycleVars
    /\ UNCHANGED matching

\* tool_approval.py:262-268: the approval request is published and the callback
\* waits on the Future.
PublishRequest(c) ==
    /\ calls[c].pc = "publish"
    /\ published' = [published EXCEPT ![calls[c].rid] = @ + 1]
    /\ calls' = [calls EXCEPT ![c].pc = "wait"]
    /\ UNCHANGED <<settingsAllow, session_approvals, pending_approvals, future, nextReq,
                   accepted, rejected, nDecisions>>
    /\ UNCHANGED lifecycleVars
    /\ UNCHANGED matching

\* the tiers when a plain approve is remembered too
GrantsSessionOnAnyApproval(tier) == tier # "deny"

\* tool_approval.py:290-295: the tiers that add the key to the session's approvals.
GrantsSession(tier) == tier \in {"approve_session", "approve_project"}

\* tool_approval.py:268-298: the Future holds a decision and the callback
\* resumes; the finally clause pops the request id, then the decision is processed.
Decide(c) ==
    /\ calls[c].pc = "wait"
    /\ future[calls[c].rid].state = "result"
    /\ LET tier == future[calls[c].rid].decision
           sid == calls[c].sid
       IN  /\ pending_approvals' = [pending_approvals EXCEPT ![sid] = @ \ {calls[c].rid}]
           /\ calls' = [calls EXCEPT ![c].pc = "returned",
                                     ![c].outcome = IF tier = "deny" THEN "deny" ELSE "allow"]
           /\ session_approvals' =
                  IF GrantsSession(tier)
                  THEN [session_approvals EXCEPT ![sid] = @ \cup {calls[c].key}]
                  ELSE session_approvals
           /\ settingsAllow' =
                  IF tier = "approve_project"
                  THEN _write_project_allowed_tool(settingsAllow, calls[c].key)
                  ELSE settingsAllow
    /\ UNCHANGED <<future, nextReq, published, accepted, rejected, nDecisions>>
    /\ UNCHANGED lifecycleVars
    /\ UNCHANGED matching

\* tool_approval.py:268-269: the timeout of asyncio.wait_for elapses with the
\* Future still pending; wait_for cancels the Future.
Timeout(c) ==
    /\ calls[c].pc = "wait"
    /\ future[calls[c].rid].state = "pending"
    /\ future' = [future EXCEPT ![calls[c].rid].state = "cancelled"]
    /\ calls' = [calls EXCEPT ![c].pc = "timed_out"]
    /\ UNCHANGED <<settingsAllow, session_approvals, pending_approvals, nextReq, published,
                   accepted, rejected, nDecisions>>
    /\ UNCHANGED lifecycleVars
    /\ UNCHANGED matching

\* the timeout path without the finally clause
TimeoutDenyKeepsPending(c) ==
    /\ calls[c].pc = "timed_out"
    /\ calls' = [calls EXCEPT ![c].pc = "returned", ![c].outcome = "deny_timeout"]
    /\ UNCHANGED <<settingsAllow, session_approvals, pending_approvals, future, nextReq,
                   published, accepted, rejected, nDecisions>>
    /\ UNCHANGED lifecycleVars
    /\ UNCHANGED matching

\* tool_approval.py:270-281: the callback resumes with TimeoutError, returns the
\* timeout denial and the finally clause pops the request id.
TimeoutDeny(c) ==
    /\ calls[c].pc = "timed_out"
    /\ pending_approvals' = [pending_approvals EXCEPT ![calls[c].sid] = @ \ {calls[c].rid}]
    /\ calls' = [calls EXCEPT ![c].pc = "returned", ![c].outcome = "deny_timeout"]
    /\ UNCHANGED <<settingsAllow, session_approvals, future, nextReq, published, accepted,
                   rejected, nDecisions>>
    /\ UNCHANGED lifecycleVars
    /\ UNCHANGED matching

\* A mutation of Resolvable: the request is looked up in every session dict
\* that was ever made, registered or not.
ResolvableInAnySession(w, rid) ==
    /\ \E sid \in TaskIds : rid \in pending_approvals[sid]
    /\ future[rid].state = "pending"

\* the lookup without the future.done() test
ResolvableIgnoringDone(w, rid) ==
    /\ _sessions[w] # NoId
    /\ rid \in pending_approvals[_sessions[w]]

\* tool_approval.py:306-331: whether resolve_tool_approval finds a Future to
\* resolve: a session registered for the workload, the request id in its
\* pending map, and a Future that is not done.
Resolvable(w, rid) ==
    /\ _sessions[w] # NoId
    /\ rid \in pending_approvals[_sessions[w]]
    /\ future[rid].state = "pending"

\* listener.py:411-440 and tool_approval.py:306-331: a tool-decision message is
\* received and resolve_tool_approval runs: the Future gets the decision and
\* True is returned, or nothing changes and False is returned.
ResolveToolApproval(w, rid, tier) ==
    /\ nDecisions < MaxDecisions
    /\ nDecisions' = nDecisions + 1
    /\ IF Resolvable(w, rid)
       THEN /\ future' = [future EXCEPT ![rid] = [state |-> "result", decision |-> tier]]
            /\ accepted' = [accepted EXCEPT ![rid] = @ + 1]
            /\ UNCHANGED rejected
       ELSE /\ rejected' = [rejected EXCEPT ![rid] = @ + 1]
            /\ UNCHANGED <<future, accepted>>
    /\ UNCHANGED <<settingsAllow, session_approvals, pending_approvals, calls, nextReq,
                   published>>
    /\ UNCHANGED lifecycleVars
    /\ UNCHANGED matching

Decisions == {"deny", "approve", "approve_session", "approve_project"}

\* The approval bridge is exercised on a workload whose first session is up:
\* registered, connected and working on its initial prompt, its relay task
\* receiving (the state start_workload_session leaves, workload.py:782-799).
InitApproval ==
    /\ dbStatus = [w \in Workloads |-> "running"]
    /\ dbSessionId = [w \in Workloads |-> FALSE]
    /\ worktree = [w \in Workloads |-> TRUE]
    /\ branch = [w \in Workloads |-> TRUE]
    /\ _sessions = [w \in Workloads |-> 1]
    /\ sess = [t \in TaskIds |-> IF t = 1 THEN [client |-> 1, task |-> 1] ELSE NoSess]
    /\ connected = {1}
    /\ busy = {1}
    /\ task = [t \in TaskIds |-> IF t = 1
                  THEN [kind |-> "start", w |-> "w1", pc |-> "done", c |-> 1, ret |-> "ok",
                        stopped |-> FALSE, dl |-> 0]
                  ELSE FreeTask]
    /\ nextTask = 2
    /\ relay = [t \in TaskIds |-> IF t = 1 THEN [pc |-> "recv", cancel |-> FALSE, summary |-> "none", hb |-> 1, check |-> "none"] ELSE NoRelay]
    /\ _resuming = {}
    /\ listener = IdleListener
    /\ retry = [i \in Slots |-> NoRetry]
    /\ stops = [i \in Slots |-> NoStop]
    /\ confirms = [i \in Slots |-> NoConfirm]
    /\ nRequests = 0
    /\ hook = [t \in TaskIds |-> NoHook]
    /\ merge_state = [t \in TaskIds |-> NewMergeState]
    /\ shutdown = NoShutdown
    /\ statusEvent = [w \in StopIds |-> "none"]
    /\ cloneHead = "main"
    /\ pulsed = [t \in TaskIds |-> FALSE]
    /\ settingsAllow = <<>>
    /\ session_approvals = [t \in TaskIds |-> {}]
    /\ pending_approvals = [t \in TaskIds |-> {}]
    /\ future = [r \in ReqIds |-> NoFuture]
    /\ calls = [c \in CallIds |-> NoCall]
    /\ nextReq = 1
    /\ published = [r \in ReqIds |-> 0]
    /\ accepted = [r \in ReqIds |-> 0]
    /\ rejected = [r \in ReqIds |-> 0]
    /\ nDecisions = 0
    /\ matching = NoMatch

NextApproval ==
    \/ \E sid \in TaskIds, tool \in ToolCalls : CallTool(sid, tool)
    \/ \E c \in CallIds : PublishRequest(c)
    \/ \E c \in CallIds : Decide(c)
    \/ \E c \in CallIds : Timeout(c)
    \/ \E c \in CallIds : TimeoutDeny(c)
    \/ \E w \in Workloads, rid \in ReqIds, tier \in Decisions : ResolveToolApproval(w, rid, tier)

SpecApproval == InitApproval /\ [][NextApproval]_vars

\* ------------------------------------------- approvals across sessions
\* Two workloads of one project.
ProjectWorkloads == {"w1", "w2"}

\* Each of the two workloads has been resumed and has a session up: registered,
\* connected and working on a follow-up, its relay task receiving; the handles
\* of the earlier sessions are stored and the worktrees and branches exist.
InitGrants ==
    /\ dbStatus = [w \in ProjectWorkloads |-> "running"]
    /\ dbSessionId = [w \in ProjectWorkloads |-> TRUE]
    /\ worktree = [w \in ProjectWorkloads |-> TRUE]
    /\ branch = [w \in ProjectWorkloads |-> TRUE]
    /\ _sessions = [w \in ProjectWorkloads |-> IF w = "w1" THEN 1 ELSE 2]
    /\ sess = [t \in TaskIds |-> IF t \in {1, 2} THEN [client |-> t, task |-> t] ELSE NoSess]
    /\ connected = {1, 2}
    /\ busy = {1, 2}
    /\ task = [t \in TaskIds |->
                  IF t \in {1, 2}
                  THEN [FreeTask EXCEPT !.kind = "resume", !.pc = "done", !.c = t,
                                        !.ret = "ok", !.w = IF t = 1 THEN "w1" ELSE "w2"]
                  ELSE FreeTask]
    /\ nextTask = 3
    /\ relay = [t \in TaskIds |-> IF t \in {1, 2} THEN [pc |-> "recv", cancel |-> FALSE, summary |-> "none", hb |-> 1, check |-> "none"]
                                  ELSE NoRelay]
    /\ _resuming = {}
    /\ listener = IdleListener
    /\ retry = [i \in Slots |-> NoRetry]
    /\ stops = [i \in Slots |-> NoStop]
    /\ confirms = [i \in Slots |-> NoConfirm]
    /\ nRequests = 0
    /\ hook = [t \in TaskIds |-> NoHook]
    /\ merge_state = [t \in TaskIds |-> NewMergeState]
    /\ shutdown = NoShutdown
    /\ statusEvent = [w \in ProjectWorkloads \cup UnknownIds |->
                          IF w \in ProjectWorkloads THEN "running" ELSE "none"]
    /\ cloneHead = "main"
    /\ pulsed = [t \in TaskIds |-> FALSE]
    /\ settingsAllow = <<>>
    /\ session_approvals = [t \in TaskIds |-> {}]
    /\ pending_approvals = [t \in TaskIds |-> {}]
    /\ future = [r \in ReqIds |-> NoFuture]
    /\ calls = [c \in CallIds |-> NoCall]
    /\ nextReq = 1
    /\ published = [r \in ReqIds |-> 0]
    /\ accepted = [r \in ReqIds |-> 0]
    /\ rejected = [r \in ReqIds |-> 0]
    /\ nDecisions = 0
    /\ matching = NoMatch

\* The workloads that are interrupted and sent follow-ups.
Followed == {"w1"}

\* The approval bridge, asked for one and the same tool call and answered in
\* time, together with what retires a session on an interrupt and resumes the
\* workload on a follow-up.
NextGrants ==
    \/ \E sid \in TaskIds : CallTool(sid, GitPush)
    \/ \E c \in CallIds : PublishRequest(c)
    \/ \E c \in CallIds : Decide(c)
    \/ \E w \in ProjectWorkloads, rid \in ReqIds, tier \in Decisions :
          ResolveToolApproval(w, rid, tier)
    \/ \E w \in Followed : StopCall(w, "needs_attention")
    \/ \E i \in Slots : StopDisconnect(i)
    \/ \E i \in Slots : StopDb(i)
    \/ \E i \in Slots : StopPublish(i)
    \/ \E i \in Slots : StopReply(i)
    \/ \E t \in TaskIds : RelayCancelled(t)
    \/ \E w \in Followed : Receive(w)
    \/ ListenerQuery
    \/ Fetch
    \/ \E t \in TaskIds : StartEntry(t)
    \/ \E t \in TaskIds : DbRunning(t)
    \/ \E t \in TaskIds : PubRunning(t)
    \/ \E t \in TaskIds : Connect(t)
    \/ \E t \in TaskIds : CfDb(t)
    \/ \E t \in TaskIds : CfPub(t)
    \/ \E t \in TaskIds : RouteQuery(t)
    \/ \E t \in TaskIds : RelayStart(t)

SpecGrants == InitGrants /\ [][NextGrants]_vars

\* ------------------------------------------- approvals across a teardown
\* The workload has been resumed and its session is up: registered, connected
\* and working on a follow-up, its relay task receiving; the handle of the
\* earlier session is stored.
InitTeardown ==
    /\ dbStatus = [w \in Workloads |-> "running"]
    /\ dbSessionId = [w \in Workloads |-> TRUE]
    /\ worktree = [w \in Workloads |-> TRUE]
    /\ branch = [w \in Workloads |-> TRUE]
    /\ _sessions = [w \in Workloads |-> 1]
    /\ sess = [t \in TaskIds |-> IF t = 1 THEN [client |-> 1, task |-> 1] ELSE NoSess]
    /\ connected = {1}
    /\ busy = {1}
    /\ task = [t \in TaskIds |->
                  IF t = 1
                  THEN [FreeTask EXCEPT !.kind = "resume", !.w = "w1", !.pc = "done",
                                        !.c = 1, !.ret = "ok"]
                  ELSE FreeTask]
    /\ nextTask = 2
    /\ relay = [t \in TaskIds |-> IF t = 1 THEN [pc |-> "recv", cancel |-> FALSE, summary |-> "none", hb |-> 1, check |-> "none"] ELSE NoRelay]
    /\ _resuming = {}
    /\ listener = IdleListener
    /\ retry = [i \in Slots |-> NoRetry]
    /\ stops = [i \in Slots |-> NoStop]
    /\ confirms = [i \in Slots |-> NoConfirm]
    /\ nRequests = 0
    /\ hook = [t \in TaskIds |-> NoHook]
    /\ merge_state = [t \in TaskIds |-> NewMergeState]
    /\ shutdown = NoShutdown
    /\ statusEvent = [w \in StopIds |-> IF w \in Workloads THEN "running" ELSE "none"]
    /\ cloneHead = "main"
    /\ pulsed = [t \in TaskIds |-> FALSE]
    /\ settingsAllow = <<>>
    /\ session_approvals = [t \in TaskIds |-> {}]
    /\ pending_approvals = [t \in TaskIds |-> {}]
    /\ future = [r \in ReqIds |-> NoFuture]
    /\ calls = [c \in CallIds |-> NoCall]
    /\ nextReq = 1
    /\ published = [r \in ReqIds |-> 0]
    /\ accepted = [r \in ReqIds |-> 0]
    /\ rejected = [r \in ReqIds |-> 0]
    /\ nDecisions = 0
    /\ matching = NoMatch

\* The approval bridge, asked for one and the same tool call, together with
\* what takes a session out of the registry (an interrupt, a cancel, the
\* retirement by the relay after an error) and what brings the workload back
\* on a follow-up.
NextTeardown ==
    \/ \E sid \in TaskIds : CallTool(sid, GitPush)
    \/ \E c \in CallIds : PublishRequest(c)
    \/ \E c \in CallIds : Decide(c)
    \/ \E c \in CallIds : Timeout(c)
    \/ \E c \in CallIds : TimeoutDeny(c)
    \/ \E w \in Workloads, rid \in ReqIds, tier \in Decisions : ResolveToolApproval(w, rid, tier)
    \/ \E w \in Workloads, target \in {"needs_attention", "cancelled"} : StopCall(w, target)
    \/ \E i \in Slots : StopDisconnect(i)
    \/ \E i \in Slots : StopDb(i)
    \/ \E i \in Slots : StopPublish(i)
    \/ \E i \in Slots : StopReply(i)
    \/ \E t \in TaskIds : RelayCancelled(t)
    \/ \E t \in TaskIds, dead \in BOOLEAN : RelayError(t, dead)
    \/ \E t \in TaskIds : RelayErrDb(t)
    \/ \E t \in TaskIds : RelayErrPub(t)
    \/ \E t \in TaskIds : RelayErrCancelled(t)
    \/ \E w \in Workloads : Receive(w)
    \/ ListenerQuery
    \/ Fetch
    \/ \E t \in TaskIds : StartEntry(t)
    \/ \E t \in TaskIds : DbRunning(t)
    \/ \E t \in TaskIds : PubRunning(t)
    \/ \E t \in TaskIds : Connect(t)
    \/ \E t \in TaskIds : CfDb(t)
    \/ \E t \in TaskIds : CfPub(t)
    \/ \E t \in TaskIds : RouteQuery(t)
    \/ \E t \in TaskIds : RelayStart(t)

SpecTeardown == InitTeardown /\ [][NextTeardown]_vars

\* ======================================================== approval properties
\* C7: a tool call creates an approval request exactly when neither the project
\* allow-list nor the session's approvals allow it; then one pending slot is
\* registered under a request id never used before, exactly one request is
\* published for it, and the call returns nothing until the Future of that id
\* holds a decision or has timed out.
RequestExactlyWhenUnmatched ==
    /\ [](\A c \in CallIds :
            /\ calls[c].rid # NoId => published[calls[c].rid] <= 1
            /\ calls[c].pc \in {"wait", "timed_out"} =>
                   /\ published[calls[c].rid] = 1
                   /\ calls[c].outcome = "none"
                   /\ calls[c].rid \in pending_approvals[calls[c].sid]
            /\ calls[c].pc = "returned" /\ calls[c].rid # NoId =>
                   published[calls[c].rid] = 1
            /\ \A d \in CallIds : c # d /\ calls[c].rid # NoId => calls[c].rid # calls[d].rid)
    /\ [][\A c \in CallIds :
            /\ calls[c].pc = "free" /\ calls'[c].pc # "free" =>
                   IF \/ _tool_matches(calls'[c].tool, settingsAllow)
                      \/ _build_permission_key(calls'[c].tool) \in session_approvals[calls'[c].sid]
                   THEN /\ calls'[c].outcome = "allow" /\ calls'[c].rid = NoId
                        /\ pending_approvals' = pending_approvals
                        /\ future' = future /\ published' = published
                   ELSE /\ calls'[c].outcome = "none" /\ calls'[c].pc = "publish"
                        /\ future[calls'[c].rid].state = "none"
                        /\ future'[calls'[c].rid].state = "pending"
                        /\ pending_approvals' =
                               [pending_approvals EXCEPT ![calls'[c].sid] = @ \cup {calls'[c].rid}]
                        /\ \A t \in TaskIds : calls'[c].rid \notin pending_approvals[t]
            /\ calls[c].rid # NoId /\ calls[c].outcome = "none" /\ calls'[c].outcome # "none" =>
                   future[calls[c].rid].state \in {"result", "cancelled"}]_vars

\* C7, its case: a call that no allow-list matched has published its request
\* and waits.
CallWaitsForDecision ==
    \E c \in CallIds : calls[c].pc = "wait" /\ published[calls[c].rid] = 1

\* C8: an approval request is resolved at most once: resolve_tool_approval
\* returns True at most once per request id; a decision for a request whose
\* Future is done, timed out or gone is rejected and changes nothing; and the
\* outcome of the call is the one the accepted decision asks for.
ResolvedAtMostOnce ==
    /\ [](\A r \in ReqIds : accepted[r] <= 1)
    /\ [](\A c \in CallIds :
            calls[c].pc = "returned" /\ calls[c].rid # NoId =>
                IF future[calls[c].rid].state = "result"
                THEN /\ accepted[calls[c].rid] = 1
                     /\ calls[c].outcome =
                            IF future[calls[c].rid].decision = "deny" THEN "deny" ELSE "allow"
                ELSE /\ accepted[calls[c].rid] = 0
                     /\ calls[c].outcome = "deny_timeout")
    /\ [][\A r \in ReqIds :
            /\ future[r].state \in {"result", "cancelled"} =>
                   future'[r] = future[r] /\ accepted'[r] = accepted[r]
            /\ rejected'[r] # rejected[r] =>
                   /\ future' = future /\ accepted' = accepted /\ calls' = calls
                   /\ settingsAllow' = settingsAllow
                   /\ session_approvals' = session_approvals
                   /\ pending_approvals' = pending_approvals
            /\ nDecisions' # nDecisions /\ future[r].state # "pending" => accepted'[r] = accepted[r]]_vars

\* C8, its case: a request got its decision and a later decision for the same
\* request id was rejected.
LaterDecisionRejected ==
    \E r \in ReqIds : accepted[r] = 1 /\ rejected[r] >= 1 /\ future[r].state = "result"

\* C9: when the timeout elapses with no decision, the call returns the timeout
\* denial (it returns, it does not raise), nothing is added to the session's
\* approvals or to the project allow-list, and the request id leaves the pending map.
TimeoutIsDenial ==
    /\ [](\A c \in CallIds :
            calls[c].outcome = "deny_timeout" =>
                /\ future[calls[c].rid].state = "cancelled"
                /\ accepted[calls[c].rid] = 0
                /\ calls[c].rid \notin pending_approvals[calls[c].sid])
    /\ [][\A c \in CallIds :
            /\ calls[c].pc = "wait" /\ calls'[c].pc = "timed_out" =>
                   settingsAllow' = settingsAllow /\ session_approvals' = session_approvals
            /\ calls[c].pc = "timed_out" /\ calls'[c] # calls[c] =>
                   /\ calls'[c].pc = "returned" /\ calls'[c].outcome = "deny_timeout"
                   /\ settingsAllow' = settingsAllow /\ session_approvals' = session_approvals
                   /\ calls[c].rid \notin pending_approvals'[calls[c].sid]]_vars

\* C9, its case: a call timed out and returned the timeout denial.
CallTimedOut ==
    \E c \in CallIds : calls[c].pc = "returned" /\ calls[c].outcome = "deny_timeout"

\* C10: deny returns a denial and changes no allow-list; approve allows the
\* call and changes no allow-list, so the next call with the same key asks
\* again; approve_session allows the call and adds the key to the session's
\* approvals, and a call whose key is in the session's approvals is allowed
\* without a new request.
DecisionTiers ==
    [][\A c \in CallIds :
          /\ calls[c].pc = "wait" /\ calls'[c].pc = "returned" =>
                 /\ future[calls[c].rid].decision = "deny" =>
                        /\ calls'[c].outcome = "deny"
                        /\ session_approvals' = session_approvals
                        /\ settingsAllow' = settingsAllow
                 /\ future[calls[c].rid].decision = "approve" =>
                        /\ calls'[c].outcome = "allow"
                        /\ session_approvals' = session_approvals
                        /\ settingsAllow' = settingsAllow
                 /\ future[calls[c].rid].decision = "approve_session" =>
                        /\ calls'[c].outcome = "allow"
                        /\ session_approvals' = [session_approvals EXCEPT
                                                    ![calls[c].sid] = @ \cup {calls[c].key}]
                        /\ settingsAllow' = settingsAllow
          /\ calls[c].pc = "free" /\ calls'[c].pc # "free" =>
                 IF calls'[c].key \in session_approvals[calls'[c].sid]
                 THEN /\ calls'[c].outcome = "allow" /\ calls'[c].rid = NoId
                      /\ nextReq' = nextReq /\ published' = published
                 ELSE settingsAllow = <<>> =>
                          calls'[c].rid = nextReq /\ nextReq' = nextReq + 1]_vars

\* C10, its case: a key approved for the session, and a later call with that
\* key allowed without a request while the project allow-list is empty.
SessionApprovalReused ==
    \E c, d \in CallIds :
        /\ c < d
        /\ calls[c].rid # NoId
        /\ future[calls[c].rid].decision = "approve_session"
        /\ calls[d].pc = "returned" /\ calls[d].sid = calls[c].sid
        /\ calls[d].key = calls[c].key
        /\ calls[d].rid = NoId /\ calls[d].outcome = "allow"
        /\ settingsAllow = <<>>

\* C11: once an approve_project decision has put Bash(git push:*) in the
\* project allow-list, every later Bash call of `git push origin main` is allowed
\* without a new approval request, while a call keyed Bash(git pull:*) that the
\* session has not approved still creates one.
ProjectGrantCoversPush ==
    [][\A c \in CallIds :
          /\ calls[c].pc = "free" /\ calls'[c].pc # "free"
          /\ \E k \in 1..Len(settingsAllow) : settingsAllow[k] = "Bash(git push:*)"
          => /\ /\ calls'[c].tool.tool_name = "Bash"
                /\ calls'[c].tool.parts = <<"git", "push", "origin", "main">>
                => calls'[c].rid = NoId /\ calls'[c].outcome = "allow"
             /\ /\ calls'[c].key = "Bash(git pull:*)"
                /\ calls'[c].key \notin session_approvals[calls'[c].sid]
                /\ settingsAllow = <<"Bash(git push:*)">>
                => calls'[c].rid # NoId /\ calls'[c].outcome = "none"]_vars

\* ------------------------------------------------------ _tool_matches alone
\* Allow-list entries in the forms the matcher distinguishes.
Patterns == {"Bash(git push:*)", "Bash(git pull:*)", "Bash(git push origin main)",
             "Bash", "Bash(*)", "Write"}

RECURSIVE ListsUpTo(_)
ListsUpTo(n) ==
    IF n = 0 THEN {<<>>}
    ELSE ListsUpTo(n - 1) \cup
         {Append(l, x) : l \in {m \in ListsUpTo(n - 1) : Len(m) = n - 1}, x \in Patterns}

\* The arguments of one call of _tool_matches are drawn; the service is as at
\* start-up.
InitMatch ==
    /\ StartUp
    /\ matching \in {[tool |-> tool, allowed |-> allowed, out |-> "none"] :
                        tool \in ToolCalls, allowed \in ListsUpTo(MaxPatterns)}

\* tool_approval.py:115-143: _tool_matches is applied to the drawn arguments.
ApplyToolMatches ==
    /\ matching.out = "none"
    /\ matching.tool # NoTool
    /\ matching' = [matching EXCEPT !.out =
                        IF _tool_matches(matching.tool, matching.allowed) THEN "true" ELSE "false"]
    /\ UNCHANGED <<lifecycleVars, approvalVars>>

NextMatch == ApplyToolMatches

SpecMatch == InitMatch /\ [][NextMatch]_vars

\* C13: _tool_matches returns true exactly when some entry of the allow-list
\* equals the permission key, equals the bare tool name, is Tool(*), or ends in
\* ":*)" with the text before that suffix a prefix of the key; so the pattern
\* Bash(git push:*) matches the key Bash(git push origin main).
ToolMatchesAsSpecified ==
    matching.out # "none" =>
        (matching.out = "true") =
            (\E k \in 1..Len(matching.allowed) :
                \/ matching.allowed[k] = _build_permission_key(matching.tool)
                \/ matching.allowed[k] = matching.tool.tool_name
                \/ matching.allowed[k] = matching.tool.tool_name \o "(*)"
                \/ /\ EndsWith(matching.allowed[k], ":*)")
                   /\ StartsWith(_build_permission_key(matching.tool),
                                 SubSeq(matching.allowed[k], 1, Len(matching.allowed[k]) - 3)))

\* C14: the merge retry counter stays between 0 and 2, and a merge attempt is
\* ended as failed by a conflict: failure is recorded only at a step that ends
\* a `git merge` which conflicted, and that step lets the agent stop and
\* leaves the branch and the worktree where they are.
MergeFailureRecordedAtConflict ==
    [][\A t \in TaskIds :
          /\ merge_state'[t].retries \in 0.._MAX_MERGE_RETRIES
          /\ (merge_state[t].succeeded # "False" /\ merge_state'[t].succeeded = "False")
                => /\ hook[t].pc = "merge"
                   /\ hook'[t].pc = "stopped"
                   /\ worktree' = worktree /\ branch' = branch]_vars

\* A workload with no connected session: no registry entry, or an entry whose
\* process is not connected yet.
NoConnectedSession(w) ==
    _sessions[w] = NoId \/ sess[_sessions[w]].client = NoId

\* C19: routing a follow-up to a workload with no connected session (no
\* registry entry, or an entry whose process is not connected yet) returns
\* false without raising: the coordinator's listener loop keeps running.
RouteReturnsFalseWithoutSession ==
    [][(listener.pc = "recv" /\ listener'.pc = "crashed")
          => ~NoConnectedSession(listener'.w)]_vars

\* C20: a follow-up that arrives while a resume is in flight is retried up to
\* three times: a retry that has not delivered ends only after its third
\* failed attempt, and a retry that delivers ends there.
RetryEndsAfterThirdFailure ==
    [][\A i \in Slots :
          /\ (retry[i].pc = "sleep" /\ retry'[i].pc = "free")
                => retry[i].attempt + 1 = RetryAttempts
          /\ (retry[i].pc = "sleep" /\ retry'[i].pc = "sleep")
                => retry'[i].attempt = retry[i].attempt + 1
          /\ retry[i].pc = "rquery" => retry'[i].pc \in {"rquery", "free"}]_vars

\* C15: a workload's worktree and branch are removed only by a run of the merge
\* hook whose merge succeeded, never by another operation; where the hook
\* records a merge failure both are still there.
RemovedOnlyAfterMerge ==
    [][\A w \in Workloads :
          /\ ((worktree[w] /\ ~worktree'[w]) \/ (branch[w] /\ ~branch'[w]))
                => \E t \in TaskIds :
                      /\ task[t].w = w
                      /\ hook[t].rc = 0
                      /\ hook[t].pc \in {"remove", "branch_d"}
                      /\ hook'[t] # hook[t]
          /\ \A t \in TaskIds :
                (task[t].w = w /\ merge_state[t].succeeded # "False"
                               /\ merge_state'[t].succeeded = "False")
                   => worktree'[w] /\ branch'[w]]_vars

\* A session gave up merging, was cancelled afterwards, and the worktree and
\* the branch are still there.
KeptAfterFailureAndCancel ==
    \E t \in TaskIds :
        /\ merge_state[t].succeeded = "False"
        /\ dbStatus[task[t].w] = "cancelled"
        /\ t \notin connected
        /\ worktree[task[t].w] /\ branch[task[t].w]

\* C17: after an interrupt or cancel request for a workload has completed, no
\* session of a task the request saw on arrival (a start in progress
\* included) is registered, has a connected agent process, or has a relay task
\* that runs on without a cancellation pending, then or later.
NothingLeftAfterStop ==
    \A t \in TaskIds :
        task[t].stopped
            => /\ _sessions[task[t].w] # t
               /\ t \notin connected
               /\ RelayDone(t) \/ relay[t].pc = "none" \/ relay[t].cancel

RelayFairness ==
    \A t \in TaskIds :
        /\ WF_vars(RelayStart(t))
        /\ WF_vars(RelayResDb(t))
        /\ WF_vars(RelayResPub(t))
        /\ WF_vars(RelayPop(t))
        /\ WF_vars(\E r \in CheckOutcomes : RelayManifest(t, r))
        /\ WF_vars(RelayCancelled(t))
        /\ WF_vars(RelayErrDb(t))
        /\ WF_vars(RelayErrPub(t))
        /\ WF_vars(RelayErrCancelled(t))

SpecLive == Init /\ [][Next]_vars /\ RelayFairness

\* The output stream of session t has ended, by the result signal, by an error
\* or by closing, and its relay task has not been cancelled.
StreamEnded(t) ==
    relay[t].pc \in {"res_db", "err_db", "closed"} /\ ~relay[t].cancel

\* C16: whenever the agent output stream of a running session ends (result,
\* error, or the stream closing) and the relay is not cancelled meanwhile, the
\* durable status eventually becomes needs_attention, the session handle is
\* stored where a result returned one, and the session leaves the registry.
StreamEndLeadsToNeedsAttention ==
    \A t \in TaskIds :
        /\ StreamEnded(t) ~> (\/ relay[t].cancel
                              \/ /\ task[t].w \in Workloads
                                 /\ dbStatus[task[t].w] = "needs_attention")
        /\ StreamEnded(t) ~> (\/ relay[t].cancel
                              \/ /\ task[t].w \in Workloads
                                 /\ _sessions[task[t].w] # t)
        /\ (relay[t].pc = "res_db") ~> (\/ relay[t].cancel
                                        \/ /\ task[t].w \in Workloads
                                           /\ dbSessionId[task[t].w])

\* Call c was allowed without asking: it returned 'allow' and no request was
\* made for it.
AllowedUnasked(c) ==
    calls[c].pc = "returned" /\ calls[c].outcome = "allow" /\ calls[c].rid = NoId

\* Call d was asked about and answered with a tier that grants its key.
Granted(d) ==
    /\ calls[d].pc = "returned"
    /\ calls[d].rid # NoId
    /\ future[calls[d].rid].state = "result"
    /\ future[calls[d].rid].decision \in {"approve_session", "approve_project"}

\* C12: a key approved with approve_session is reused only in the session that
\* was granted it: a call allowed without asking, for a key the project's
\* allow-list does not cover, follows a grant of that key in its own session,
\* never one made in another workload's session or in an earlier session of
\* the same workload.
SessionGrantStaysInSession ==
    \A c \in CallIds :
        (AllowedUnasked(c) /\ ~_tool_matches(calls[c].tool, settingsAllow))
            => \E d \in CallIds :
                  /\ Granted(d)
                  /\ calls[d].sid = calls[c].sid
                  /\ calls[d].key = calls[c].key

\* A key was granted with approve_session in one session of a workload, and the
\* same key was asked about again in a later, resumed session of that workload.
AskedAgainAfterResume ==
    \E c, d \in CallIds :
        /\ Granted(d) /\ future[calls[d].rid].decision = "approve_session"
        /\ calls[c].key = calls[d].key
        /\ calls[c].sid # calls[d].sid
        /\ calls[c].sid > calls[d].sid
        /\ task[calls[c].sid].w = task[calls[d].sid].w
        /\ calls[c].rid # NoId /\ calls[c].rid > calls[d].rid

\* The body of resume task t is running: it has started and has not finished.
ResumeRunning(t) ==
    task[t].kind = "resume" /\ task[t].pc \notin {"free", "created", "done"}

\* C21: the resuming guard of a workload is set while a resume of it is
\* running, and it is cleared once the resumes of the workload have finished,
\* however the session start ended.
ResumingGuardFollowsResume ==
    /\ \A t \in TaskIds : ResumeRunning(t) => task[t].w \in _resuming
    /\ \A w \in Workloads :
          (\A t \in TaskIds : task[t].w = w => ~ResumeRunning(t)) => w \notin _resuming

\* C23: a confirmation request is answered 404 for an unknown workload and 409
\* for a workload whose status is not needs_attention, in both cases without a
\* status change; it writes completed only over the status needs_attention.
ConfirmOnlyFromNeedsAttention ==
    [][\A i \in Slots :
          LET r == confirms[i]
              q == confirms'[i]
          IN  /\ (r.pc = "free" /\ q.pc # "free")
                    => /\ dbStatus' = dbStatus
                       /\ IF q.w \notin Workloads THEN q.pc = "reply" /\ q.http = 404
                          ELSE IF dbStatus[q.w] # "needs_attention"
                          THEN q.pc = "reply" /\ q.http = 409
                          ELSE q.pc = "commit"
              /\ (r.pc = "commit" /\ q # r)
                    => /\ dbStatus[r.w] = "needs_attention"
                       /\ dbStatus'[r.w] = "completed"]_vars

\* Session dict sid is in the registry.
Registered(sid) == \E w \in DOMAIN _sessions : _sessions[w] = sid

\* The request of call c is pending and the session it was made in has been
\* taken out of the registry.
PendingAtTeardown(c) ==
    /\ calls[c].pc \in {"publish", "wait"}
    /\ future[calls[c].rid].state = "pending"
    /\ ~Registered(calls[c].sid)

\* C22: an approval request that is pending when its session has been torn
\* down is never resolved: no decision for it is accepted, its future never
\* holds a result, the call is never allowed, and the step that ends the call
\* adds nothing to the session's approvals or to the project's allow-list.
AbandonedNeverResolved ==
    [][\A c \in CallIds :
          PendingAtTeardown(c)
              => /\ accepted'[calls[c].rid] = accepted[calls[c].rid]
                 /\ future'[calls[c].rid].state # "result"
                 /\ calls'[c].outcome # "allow"
                 /\ calls'[c] # calls[c]
                       => /\ session_approvals' = session_approvals
                          /\ settingsAllow' = settingsAllow]_vars

\* A request is pending, its session was cancelled out of the registry, and a
\* decision for the request has been rejected.
DecisionRejectedAfterTeardown ==
    \E c \in CallIds :
        /\ PendingAtTeardown(c) /\ calls[c].pc = "wait"
        /\ calls[c].sid \notin connected
        /\ rejected[calls[c].rid] > 0 /\ accepted[calls[c].rid] = 0
        /\ dbStatus[task[calls[c].sid].w] = "cancelled"

\* C24: the summary built on the result of session t opens with the merged
\* notice exactly when the hook of t recorded success, with the conflict
\* notice exactly when it recorded failure (which it does after two
\* conflicts), and with the generic notice exactly when it recorded nothing;
\* in each case needs_attention and the handle have been written before.
SummaryReflectsMergeOutcome ==
    [][\A t \in TaskIds :
          /\ (relay[t].pc = "res_db" /\ relay'[t].pc = "res_pub")
                => /\ dbStatus'[task[t].w] = "needs_attention"
                   /\ dbSessionId'[task[t].w]
          /\ (relay[t].pc = "res_pub" /\ relay'[t].pc = "summary_pub")
                => /\ relay'[t].summary = SummaryFor(merge_state[t].succeeded)
                   /\ merge_state[t].succeeded = "False"
                         => merge_state[t].retries = _MAX_MERGE_RETRIES]_vars

\* A start of session t that is returning after a failure of worktree
\* creation or of connect (workload.py:673, 779).
FailedStartReturns(t) ==
    /\ task[t].pc \in {"wt_failed_pub", "cf_pub"}
    /\ task'[t].pc # task[t].pc

\* workload.py:713-799: something of a session of workload w is there: a
\* registry entry, a relay task that has not ended, or a connected agent
\* process.
SessionLeft(w) ==
    \/ _sessions[w] # NoId
    \/ \E u \in TaskIds : /\ task[u].w = w
                          /\ \/ relay[u].pc \notin {"none", "done", "closed"}
                             \/ u \in connected

\* C25: a start that failed at worktree creation or at connect is not tried
\* again: it writes needs_attention, publishes the status event and returns,
\* and when it has returned the workload has no registry entry, no relay task
\* and no agent process.
FailedStartLeavesNothing ==
    [][\A t \in TaskIds :
          /\ task[t].pc \in {"wt_failed_db", "cf_db"} /\ task'[t].pc # task[t].pc
                => /\ dbStatus'[task[t].w] = "needs_attention"
                   /\ task'[t].pc \in {"wt_failed_pub", "cf_pub"}
          /\ FailedStartReturns(t)
                => /\ statusEvent'[task[t].w] = "needs_attention"
                   /\ task'[t].pc \notin {"created", "git_add", "git_attach", "connect"}
                   /\ ~SessionLeft(task[t].w)']_vars

\* C26: when the relay loop raises, the handler cancels the heartbeat, writes
\* needs_attention, and a handler that runs to its end, whether or not the
\* status update failed, ends the task normally with the workload's registry
\* entry removed and no heartbeat.
RelayErrorHandled ==
    [][\A t \in TaskIds :
          /\ (relay[t].pc = "recv" /\ relay'[t].pc = "err_db") => relay'[t].hb = 0
          /\ (relay[t].pc = "err_db" /\ relay'[t].pc = "err_pub")
                => dbStatus'[task[t].w] = "needs_attention"
          /\ (relay[t].pc \in {"err_db", "err_pub"} /\ ~relay[t].cancel
                /\ relay'[t].pc # relay[t].pc /\ relay'[t].pc # "err_pub")
                => /\ relay'[t].pc = "done"
                   /\ relay'[t].hb = 0
                   /\ _sessions'[task[t].w] = NoId]_vars

\* C26 witness: the handler of session t has run to its end: needs_attention is
\* written and published without a handle, the entry is gone, and the client
\* was not disconnected by a stop.
RelayErrorHandlerRan ==
    \E t \in TaskIds :
        /\ task[t].w \in Workloads
        /\ relay[t].pc = "done" /\ relay[t].hb = 0
        /\ t \in connected
        /\ _sessions[task[t].w] = NoId
        /\ dbStatus[task[t].w] = "needs_attention"
        /\ statusEvent[task[t].w] = "needs_attention"
        /\ ~dbSessionId[task[t].w]
        /\ \A i \in Slots : stops[i].pc = "free"

\* C27: a conflicting merge is aborted, counted once, and answered with a
\* rebase instruction that keeps the session running; and whenever the hook
\* has sent a rebase instruction, the next completion signal of the session
\* makes another merge attempt.
RebaseIsFollowedByMerge ==
    [][\A t \in TaskIds :
          /\ (hook[t].pc = "merge" /\ hook'[t].pc # "merge" /\ hook'[t].rc # 0)
                => hook'[t].pc = "abort"
          /\ (hook[t].pc = "abort" /\ hook'[t].pc # "abort")
                => /\ merge_state'[t].retries = merge_state[t].retries + 1
                   /\ merge_state'[t].succeeded = merge_state[t].succeeded
                   /\ hook'[t].pc = "none"
                   /\ (t \in busy) = (t \in busy')
                   /\ relay'[t] = relay[t]
                   /\ _sessions' = _sessions
          /\ (hook[t].pc = "none" /\ hook'[t].pc # "none" /\ merge_state[t].retries > 0
                /\ worktree[task[t].w])
                => hook'[t].pc = "merge"]_vars

\* The first session of each workload with its Stop hook and its result, while
\* update_project switches the branch of the canonical clone.
NextMerge ==
    \/ \E w \in Workloads : Dispatch(w)
    \/ \E t \in TaskIds : StartEntry(t)
    \/ \E t \in TaskIds : GitAdd(t)
    \/ \E t \in TaskIds : GitAttach(t)
    \/ \E t \in TaskIds : DbRunning(t)
    \/ \E t \in TaskIds : PubRunning(t)
    \/ \E t \in TaskIds : Connect(t)
    \/ \E t \in TaskIds : InitialQuery(t)
    \/ \E t \in TaskIds : HookEnter(t)
    \/ \E t \in TaskIds : HookMerge(t)
    \/ \E t \in TaskIds : HookAbort(t)
    \/ \E t \in TaskIds : HookRemoveWorktree(t)
    \/ \E t \in TaskIds : HookDeleteBranch(t)
    \/ \E t \in TaskIds : RelayStart(t)
    \/ \E t \in TaskIds : RelayResult(t)
    \/ \E t \in TaskIds : RelayResDb(t)
    \/ \E t \in TaskIds : RelayResPub(t)
    \/ \E t \in TaskIds : RelayPop(t)
    \/ \E t \in TaskIds, r \in CheckOutcomes : RelayManifest(t, r)
    \/ \E b \in Branches : Checkout(b)

SpecMerge == Init /\ [][NextMerge]_vars

\* C28: the target branch of a session is the branch the clone has checked
\* out when the session starts, and a merge of the workload branch made by the
\* hook goes into that branch, whatever was checked out in between.
MergesIntoBranchOfSessionStart ==
    [][\A t \in TaskIds :
          /\ (task[t].pc = "pub_running" /\ task'[t].pc = "connect")
                => merge_state'[t].target_branch = cloneHead
          /\ (task[t].pc \notin {"free", "created", "git_add", "git_attach", "db_running",
                                 "pub_running"})
                => merge_state'[t].target_branch = merge_state[t].target_branch
          /\ (hook[t].pc = "merge" /\ hook'[t].pc = "remove")
                => hook'[t].into = merge_state[t].target_branch]_vars

\* C29: a resume whose session start succeeded delivers its follow-up exactly
\* once: the delivery is made to its own agent process, connected and with
\* its relay task created, never twice, and the resume does not end without
\* it.
FollowUpDeliveredOnce ==
    [][\A t \in TaskIds :
          (task[t].kind = "resume" /\ task[t].ret = "ok")
             => /\ task'[t].dl <= 1
                /\ task'[t].dl > task[t].dl
                      => /\ task[t].c = t /\ t \in connected
                         /\ relay[t].pc # "none"
                /\ (task[t].pc = "route_query" /\ task'[t].pc = "done")
                      => task'[t].dl = 1]_vars

\* C30: _ensure_worktree returns an existing worktree path without running
\* git; otherwise it runs `git worktree add -b`, which creates worktree and
\* branch; when that fails because the branch exists, the worktree is attached
\* to the branch, once; every other failure and a failure of the attach are
\* raised, and git is not run again by that start.
EnsureWorktreeAsSpecified ==
    [][\A t \in TaskIds :
          LET w == task[t].w
              p == task[t].pc
              q == task'[t].pc
          IN  /\ (p = "created" /\ q # p /\ ~SessionExists(w))
                    => /\ q = IF worktree[w] THEN "db_running" ELSE "git_add"
                       /\ worktree' = worktree /\ branch' = branch
              /\ (p = "git_add" /\ q # p)
                    => IF branch[w]
                       THEN q = "git_attach" /\ worktree' = worktree /\ branch' = branch
                       ELSE \/ q = "db_running" /\ worktree'[w] /\ branch'[w]
                            \/ q = "wt_failed_db" /\ worktree' = worktree /\ branch' = branch
              /\ (p = "git_attach" /\ q # p)
                    => \/ q = "db_running" /\ worktree'[w] /\ branch' = branch
                       \/ q = "wt_failed_db" /\ worktree' = worktree /\ branch' = branch
              /\ p \in {"wt_failed_db", "wt_failed_pub", "db_running"}
                    => q \notin {"git_add", "git_attach"}]_vars

\* C30 witness: a start whose `git worktree add -b` failed on the existing
\* branch is attaching the worktree to it.
AttachRetried ==
    \E t \in TaskIds : /\ task[t].pc = "git_attach"
                       /\ branch[task[t].w] /\ ~worktree[task[t].w]

\* C31: the initial instruction is sent by a start without a stored handle,
\* once, after its connect; a resume is created only with a stored handle and
\* never sends it; and a workload has at most one first start.
InitialInstructionOnlyOnFirstStart ==
    [][\A t \in TaskIds :
          /\ (task[t].pc = "connect" /\ task'[t].ret = "ok")
                => (task'[t].pc = "initial_query") = (task[t].kind = "start")
          /\ (task'[t].pc = "initial_query" /\ task[t].pc # "initial_query")
                => task[t].pc = "connect" /\ task[t].kind = "start"
          /\ (task[t].pc = "free" /\ task'[t].kind = "resume")
                => dbSessionId[task'[t].w]
          /\ (task[t].pc = "free" /\ task'[t].kind = "start")
                => \A u \in TaskIds : ~(task[u].kind = "start" /\ task[u].w = task'[t].w)]_vars

\* C31 witness: a resumed session is up (connected, follow-up being routed)
\* after the first start of the workload sent the initial instruction.
ResumedWithoutInitialInstruction ==
    \E t, u \in TaskIds :
        /\ task[t].kind = "start" /\ task[t].pc = "done" /\ task[t].ret = "ok"
        /\ task[u].kind = "resume" /\ task[u].w = task[t].w
        /\ task[u].pc = "route_query" /\ task[u].ret = "ok" /\ u \in connected

\* The relay loop of the first session of each workload with its assistant
\* turns and its heartbeat, and every way the loop ends: the terminal result,
\* a cancellation by a stop, an error, and the stream closing.
NextRelay ==
    \/ \E w \in Workloads : Dispatch(w)
    \/ \E t \in TaskIds : StartEntry(t)
    \/ \E t \in TaskIds : GitAdd(t)
    \/ \E t \in TaskIds : GitAttach(t)
    \/ \E t \in TaskIds : DbRunning(t)
    \/ \E t \in TaskIds : PubRunning(t)
    \/ \E t \in TaskIds : Connect(t)
    \/ \E t \in TaskIds : InitialQuery(t)
    \/ \E t \in TaskIds : HookEnter(t)
    \/ \E t \in TaskIds : HookMerge(t)
    \/ \E t \in TaskIds : HookAbort(t)
    \/ \E t \in TaskIds : HookRemoveWorktree(t)
    \/ \E t \in TaskIds : HookDeleteBranch(t)
    \/ \E t \in TaskIds : RelayStart(t)
    \/ \E t \in TaskIds, blocks \in BOOLEAN : RelayAssistant(t, blocks)
    \/ \E t \in TaskIds : RelayForwarded(t)
    \/ \E t \in TaskIds : HeartbeatPulse(t)
    \/ \E t \in TaskIds : RelayResult(t)
    \/ \E t \in TaskIds : RelayResDb(t)
    \/ \E t \in TaskIds : RelayResPub(t)
    \/ \E t \in TaskIds : RelayPop(t)
    \/ \E t \in TaskIds, r \in CheckOutcomes : RelayManifest(t, r)
    \/ \E t \in TaskIds : RelayCancelled(t)
    \/ \E t \in TaskIds, dead \in BOOLEAN : RelayError(t, dead)
    \/ \E t \in TaskIds : RelayErrDb(t)
    \/ \E t \in TaskIds : RelayErrPub(t)
    \/ \E t \in TaskIds : RelayErrFailed(t)
    \/ \E t \in TaskIds : RelayErrCancelled(t)
    \/ \E t \in TaskIds : RelayClosed(t)
    \/ \E w \in Workloads, target \in {"needs_attention", "cancelled"} : StopCall(w, target)
    \/ \E i \in Slots : StopDisconnect(i)
    \/ \E i \in Slots : StopDb(i)
    \/ \E i \in Slots : StopPublish(i)
    \/ \E i \in Slots : StopReply(i)

SpecRelay == Init /\ [][NextRelay]_vars

\* The relay of session t is inside its loop: waiting for the agent's next
\* message, forwarding a turn, or handling the terminal result.
InRelayLoop(t) ==
    relay[t].pc \in {"recv", "fwd", "res_db", "res_pub", "summary_pub", "manifest"}

AtMostOneHeartbeat ==
    \A t \in TaskIds : /\ relay[t].hb <= 1
                       /\ RelayDone(t) => relay[t].hb = 0

\* Two workloads of one project, each with a working session, signal
\* completion: the Stop hooks and the handling of the terminal results.
NextClone ==
    \/ \E t \in TaskIds : HookEnter(t)
    \/ \E t \in TaskIds : HookMerge(t)
    \/ \E t \in TaskIds : HookAbort(t)
    \/ \E t \in TaskIds : HookRemoveWorktree(t)
    \/ \E t \in TaskIds : HookDeleteBranch(t)
    \/ \E t \in TaskIds : RelayResult(t)
    \/ \E t \in TaskIds : RelayResDb(t)
    \/ \E t \in TaskIds : RelayResPub(t)
    \/ \E t \in TaskIds : RelayPop(t)

SpecClone == InitGrants /\ [][NextClone]_vars

\* C33: the hooks of different workloads are not serialized: a session that
\* has signalled completion enters its hook whatever the hooks of the other
\* sessions are doing in the clone.
MergesNotSerialized ==
    \A t \in TaskIds :
        (t \in connected /\ t \in busy /\ hook[t].pc = "none") => ENABLED HookEnter(t)

\* C33 witness: the hook of one workload is suspended on its `git merge` while
\* the hook of another workload is suspended on its own `git merge` or
\* `git merge --abort` in the same clone.
MergesOverlap ==
    \E t, u \in TaskIds :
        /\ task[t].w \in ProjectWorkloads /\ task[u].w \in ProjectWorkloads
        /\ task[t].w # task[u].w
        /\ hook[t].pc = "merge"
        /\ hook[u].pc \in {"merge", "abort"}

\* C34: whatever the consistency check after a merge answers, its end changes
\* neither the recorded merge outcome nor the durable status, and the relay
\* ends with the workload's registry entry removed.
CheckFailureChangesNothing ==
    [][\A t \in TaskIds :
          (relay[t].pc = "manifest" /\ relay'[t].pc # "manifest" /\ ~relay[t].cancel)
             => /\ merge_state' = merge_state
                /\ dbStatus' = dbStatus /\ dbSessionId' = dbSessionId
                /\ relay'[t].pc = "done"
                /\ _sessions'[task[t].w] = NoId]_vars

\* C34 witness: the relay of a session whose merge succeeded has ended after a
\* consistency check that failed; success is still recorded, needs_attention
\* still written and the entry gone.
CheckFailedAfterMerge ==
    \E t \in TaskIds :
        /\ task[t].w \in Workloads
        /\ relay[t].pc = "done" /\ relay[t].check \in {"error", "exception"}
        /\ merge_state[t].succeeded = "True"
        /\ dbStatus[task[t].w] = "needs_attention"
        /\ _sessions[task[t].w] = NoId

\* C35: a relay task that ends removes from the registry no entry but that of
\* its own session: an entry that another session of the workload registered
\* is still there after the step that ends the relay.
RelayRemovesOnlyOwnEntry ==
    [][\A t \in TaskIds :
          (~RelayDone(t) /\ RelayDone(t)' /\ task[t].w \in Workloads)
             => (_sessions[task[t].w] \notin {NoId, t}
                    => _sessions'[task[t].w] = _sessions[task[t].w])]_vars

\* The relay of session c has received the terminal result of the session and
\* is handling it: it reads no further output of the agent.
RelayPastResult(c) ==
    c \in TaskIds /\ relay[c].pc \in {"res_db", "res_pub", "summary_pub", "manifest"}

\* C36: a follow-up is reported as delivered only to a session whose relay is
\* still consuming the agent's output: no delivery by the listener, by a
\* resume or by a retry is made to a session whose relay has received the
\* terminal result.
NoDeliveryAfterResult ==
    [][/\ (listener.pc = "lquery" /\ listener'.pc = "recv") => ~RelayPastResult(listener.c)
       /\ \A t \in TaskIds :
             task'[t].dl > task[t].dl => ~RelayPastResult(task[t].c)
       /\ \A i \in Slots :
             (retry[i].pc = "rquery" /\ retry'[i].pc = "free" /\ retry[i].c \in connected)
                => ~RelayPastResult(retry[i].c)]_vars

\* No operation on workload w is in flight: every start, resume and delivery
\* for it has returned, the relay of each of its sessions has ended, no stop or
\* completion request for it is being served, and the listener, its retries
\* and the shutdown are idle.
OperationsFinished(w) ==
    /\ \A t \in TaskIds :
          task[t].w = w => /\ task[t].pc = "done"
                           /\ relay[t].pc \in {"none", "done", "closed"}
                           /\ hook[t].pc = "none"
    /\ \A i \in Slots : stops[i].w # w /\ confirms[i].w # w /\ retry[i].w # w
    /\ listener.pc = "recv"
    /\ shutdown.pc = "idle"

\* C37: status events agree with the durable store: once every in-flight
\* operation on a workload has finished, the status of the last published
\* workload-status event of the workload equals its durable status.
StatusEventsAgreeWithStore ==
    \A w \in Workloads :
        (OperationsFinished(w) /\ statusEvent[w] # "none")
            => statusEvent[w] = dbStatus[w]

\* workload.py:512-607 and 615-635: the relay of session t runs its result
\* branch or its error handler, with no cancellation requested.
RelayRetiring(t) ==
    relay[t].pc \in {"summary_pub", "manifest", "err_db", "err_pub"} /\ ~relay[t].cancel

\* C39: every path that retires a session releases its agent process: when the
\* relay task ends after the terminal result or after a relay error and the
\* session is no longer in the registry, no agent process of the session is
\* connected.
RetiredSessionReleasesProcess ==
    [][\A t \in TaskIds :
          (RelayRetiring(t) /\ relay'[t].pc = "done" /\ _sessions'[task[t].w] # t)
              => t \notin connected']_vars

\* --------------------------------------------- the project's allow-list
\* permissions.allow of .claude/settings.local.json as the sessions may find
\* it: no file, or entries of earlier grants.
StoredLists == {<<>>, <<"Read">>, <<"Read", "Bash(git pull:*)">>}

\* Two workloads of one project with a session up each, as in InitGrants, over
\* an allow-list that may hold entries already.
InitPersist ==
    /\ dbStatus = [w \in ProjectWorkloads |-> "running"]
    /\ dbSessionId = [w \in ProjectWorkloads |-> TRUE]
    /\ worktree = [w \in ProjectWorkloads |-> TRUE]
    /\ branch = [w \in ProjectWorkloads |-> TRUE]
    /\ _sessions = [w \in ProjectWorkloads |-> IF w = "w1" THEN 1 ELSE 2]
    /\ sess = [t \in TaskIds |-> IF t \in {1, 2} THEN [client |-> t, task |-> t] ELSE NoSess]
    /\ connected = {1, 2}
    /\ busy = {1, 2}
    /\ task = [t \in TaskIds |->
                  IF t \in {1, 2}
                  THEN [FreeTask EXCEPT !.kind = "resume", !.pc = "done", !.c = t,
                                        !.ret = "ok", !.w = IF t = 1 THEN "w1" ELSE "w2"]
                  ELSE FreeTask]
    /\ nextTask = 3
    /\ relay = [t \in TaskIds |-> IF t \in {1, 2} THEN [pc |-> "recv", cancel |-> FALSE, summary |-> "none", hb |-> 1, check |-> "none"]
                                  ELSE NoRelay]
    /\ _resuming = {}
    /\ listener = IdleListener
    /\ retry = [i \in Slots |-> NoRetry]
    /\ stops = [i \in Slots |-> NoStop]
    /\ confirms = [i \in Slots |-> NoConfirm]
    /\ nRequests = 0
    /\ hook = [t \in TaskIds |-> NoHook]
    /\ merge_state = [t \in TaskIds |-> NewMergeState]
    /\ shutdown = NoShutdown
    /\ statusEvent = [w \in ProjectWorkloads \cup UnknownIds |->
                          IF w \in ProjectWorkloads THEN "running" ELSE "none"]
    /\ cloneHead = "main"
    /\ pulsed = [t \in TaskIds |-> FALSE]
    /\ settingsAllow \in StoredLists
    /\ session_approvals = [t \in TaskIds |-> {}]
    /\ pending_approvals = [t \in TaskIds |-> {}]
    /\ future = [r \in ReqIds |-> NoFuture]
    /\ calls = [c \in CallIds |-> NoCall]
    /\ nextReq = 1
    /\ published = [r \in ReqIds |-> 0]
    /\ accepted = [r \in ReqIds |-> 0]
    /\ rejected = [r \in ReqIds |-> 0]
    /\ nDecisions = 0
    /\ matching = NoMatch

\* The approval bridge of the two sessions, asked for any of the tool calls.
NextPersist ==
    \/ \E sid \in TaskIds, tool \in ToolCalls : CallTool(sid, tool)
    \/ \E c \in CallIds : PublishRequest(c)
    \/ \E c \in CallIds : Decide(c)
    \/ \E c \in CallIds : Timeout(c)
    \/ \E c \in CallIds : TimeoutDeny(c)
    \/ \E w \in ProjectWorkloads, rid \in ReqIds, tier \in Decisions :
          ResolveToolApproval(w, rid, tier)

SpecPersist == InitPersist /\ [][NextPersist]_vars

\* the number of entries of the allow-list equal to key
Occurrences(allow_list, key) ==
    Cardinality({k \in 1..Len(allow_list) : allow_list[k] = key})

\* the callback of call c resumes with the decision approve_project
GrantedForProject(c) ==
    /\ calls[c].pc = "wait"
    /\ future[calls[c].rid].state = "result"
    /\ future[calls[c].rid].decision = "approve_project"
    /\ calls'[c].pc = "returned"

\* C40: persisting project-level grants loses nothing and stores no
\* duplicates: whichever session a project-level grant comes from, after it
\* the allow-list holds the granted key exactly once, holds every entry it
\* held before, and holds no entry twice.
GrantsPersistedExactlyOnce ==
    [][/\ \A c \in CallIds :
             GrantedForProject(c) => Occurrences(settingsAllow', calls[c].key) = 1
       /\ Len(settingsAllow') >= Len(settingsAllow)
       /\ SubSeq(settingsAllow', 1, Len(settingsAllow)) = settingsAllow
       /\ \A k \in 1..Len(settingsAllow') :
             Occurrences(settingsAllow', settingsAllow'[k]) = 1]_vars

\* C40, its case: two sessions were granted the same key for the project, over
\* an allow-list that held entries before.
SameKeyGrantedTwice ==
    \E c, d \in CallIds :
        /\ calls[c].sid # calls[d].sid
        /\ calls[c].key = calls[d].key
        /\ \A e \in {c, d} : /\ calls[e].pc = "returned"
                             /\ calls[e].rid \in ReqIds
                             /\ future[calls[e].rid].decision = "approve_project"
        /\ Len(settingsAllow) >= 2

====
